---- MODULE Spec2Model ----
(***************************************************************************)
(* A model of the MARBLE lexicon tools: the helper functions of            *)
(* src/helpers.ts, the converter of src/convert-marble-lexicon.ts and the  *)
(* SQLite loader of src/import-lexicon-to-sqlite.ts.                       *)
(*                                                                         *)
(* Strings whose characters the code inspects (ids, references, link      *)
(* texts) are sequences of one-character strings; strings the code only    *)
(* copies or compares (language codes, definitions, glosses) are atoms.    *)
(***************************************************************************)
EXTENDS Integers, Sequences, FiniteSets, TLC

VARIABLES
    hpc,        \* helpers: "start", "converted", "parsed", "condensed"
    hArg,       \* helpers: the argument, [kind |-> "link" | "sense", s |-> string]
    hContainer, \* helpers: the container element given to extractDomains
    hRef,       \* helpers: result of marbleLinkIdToU23003
    hParsed,    \* helpers: result of parseU23003Reference
    hCondensed, \* helpers: result of condenseSenseId
    hCodes,     \* helpers: result of transformDomainCode
    hDomains,   \* helpers: result of extractDomains
    hConsole,   \* helpers: the warnings the call wrote with console.warn
    sources,            \* converter: the family the source directories are drawn from
    dictionaryType,     \* converter: the -d option, SDBG or SDBH
    stage,              \* converter: the step main is at
    walk,               \* converter: position of processFile in the source documents
    consumed,           \* converter: source elements read so far
    entriesByLanguage,  \* converter: entriesByLanguage[languageCode][lemma]
    linksFile,          \* converter: locals of the running processMarbleLinksFile
    linksResult,        \* converter: what the last processMarbleLinksFile returned
    linkTotals,         \* converter: totals of processMarbleLinksFiles
    removalStats,       \* converter: what removeEmptyEntriesAndSenses returned
    output,             \* converter: the documents written, by language
    warnings,           \* converter: the warnings of removeDuplicateOccurrences
    extracted,          \* converter: the lexicon processFile built, as it was when
                        \*   verifyAndRemoveDuplicateSenses was called (history)
    files,              \* loader: the documents of the input directories, in reading order
    fileIdx,            \* loader: the number of files processDirectory has taken
    loader,             \* loader: where main is, and the locals of processLexicalReference
    tasks,              \* loader: the processEntry calls started so far
    sqlite,             \* loader: the database connection and its transaction
    cache,              \* loader: the module-level ForeignKeyCache
    outcome,            \* loader: how each file ended, and the row counts then
    semanticDomains,       \* domain file: its SemanticDomain elements, in document order
    domainFile,            \* domain file: where processDomainFile is, and its locals
    taxonomiesByLanguage,  \* domain file: taxonomiesByLanguage[languageCode], the
                           \*   subDomains of the taxonomy of the file
    taxonomyElement,       \* loader, taxonomies: the Taxonomy element of the document
    taxonomyDb,            \* loader, taxonomies: the three taxonomy tables
    taxonomyLoad           \* loader, taxonomies: where processTaxonomy is, and the
                           \*   activations of processSubDomain

helperVars == <<hpc, hArg, hContainer, hRef, hParsed, hCondensed, hCodes, hDomains, hConsole>>

linkVars == <<linksFile, linksResult, linkTotals>>

convertVars == <<sources, dictionaryType, stage, walk, consumed, entriesByLanguage,
                 linksFile, linksResult, linkTotals, removalStats, output, warnings,
                 extracted>>

loadVars == <<files, fileIdx, loader, tasks, sqlite, cache, outcome>>

domainVars == <<semanticDomains, domainFile, taxonomiesByLanguage>>

taxonomyVars == <<taxonomyElement, taxonomyDb, taxonomyLoad>>

vars == <<hpc, hArg, hContainer, hRef, hParsed, hCondensed, hCodes, hDomains, hConsole, sources,
          dictionaryType, stage, walk, consumed, entriesByLanguage, linksFile, linksResult,
          linkTotals, removalStats, output, warnings, extracted, files, fileIdx, loader, tasks, sqlite,
          cache, outcome, semanticDomains, domainFile, taxonomiesByLanguage,
          taxonomyElement, taxonomyDb, taxonomyLoad>>

\* the variables of a program that is not the one running keep these values
HelpersIdle ==
    /\ hpc = "idle"
    /\ hArg = [kind |-> "none", s |-> <<>>]
    /\ hContainer = <<>>
    /\ hRef = <<>>
    /\ hParsed = <<>>
    /\ hCondensed = <<>>
    /\ hCodes = <<>>
    /\ hDomains = <<>>
    /\ hConsole = <<>>

DomainsIdle ==
    /\ semanticDomains = <<>>
    /\ domainFile = <<>>
    /\ taxonomiesByLanguage = <<>>

TaxonomyIdle ==
    /\ taxonomyElement = <<>>
    /\ taxonomyDb = <<>>
    /\ taxonomyLoad = <<>>

ConvertIdle ==
    /\ sources = "none"
    /\ dictionaryType = <<>>
    /\ stage = "idle"
    /\ walk = <<>>
    /\ consumed = <<>>
    /\ entriesByLanguage = <<>>
    /\ linksFile = <<>>
    /\ linksResult = <<>>
    /\ linkTotals = <<>>
    /\ removalStats = <<>>
    /\ output = <<>>
    /\ warnings = {}
    /\ extracted = <<>>

LoadIdle ==
    /\ files = <<>>
    /\ fileIdx = 0
    /\ loader = <<>>
    /\ tasks = <<>>
    /\ sqlite = <<>>
    /\ cache = <<>>
    /\ outcome = <<>>

----------------------------------------------------------------------------
(* Characters and JavaScript string/number primitives                      *)

Range(f) == {f[i] : i \in DOMAIN f}

DigitChars == <<"0", "1", "2", "3", "4", "5", "6", "7", "8", "9">>

UpperChars == <<"A", "B", "C", "D", "E", "F", "G", "H", "I", "J", "K", "L", "M",
                "N", "O", "P", "Q", "R", "S", "T", "U", "V", "W", "X", "Y", "Z">>

LowerChars == <<"a", "b", "c", "d", "e", "f", "g", "h", "i", "j", "k", "l", "m",
                "n", "o", "p", "q", "r", "s", "t", "u", "v", "w", "x", "y", "z">>

\* \d of a JavaScript regular expression
IsDigit(c) == c \in Range(DigitChars)

\* \w of a JavaScript regular expression: [A-Za-z0-9_]
WordCharSet == Range(DigitChars) \cup Range(UpperChars) \cup Range(LowerChars) \cup {"_"}

\* \s of a JavaScript regular expression (the blank characters of the model)
SpaceSet == {" "}
IsSpace(c) == c \in SpaceSet

DigitVal(c) == CHOOSE n \in 0..9 : DigitChars[n + 1] = c

\* /^\d+$/.test(s)
IsNumeric(s) == Len(s) > 0 /\ \A i \in 1..Len(s) : IsDigit(s[i])

\* s.startsWith(p)
StartsWith(s, p) == Len(s) >= Len(p) /\ SubSeq(s, 1, Len(p)) = p

\* s.substring(from, to) with JavaScript's 0-based, end-exclusive indices
Substring(s, from, to) ==
    LET lo == IF from < 0 THEN 0 ELSE IF from > Len(s) THEN Len(s) ELSE from
        hi == IF to < 0 THEN 0 ELSE IF to > Len(s) THEN Len(s) ELSE to
    IN  IF lo <= hi THEN SubSeq(s, lo + 1, hi) ELSE SubSeq(s, hi + 1, lo)

RECURSIVE DecimalValue(_)
\* the value of a run of decimal digits
DecimalValue(s) ==
    IF s = <<>> THEN 0
    ELSE 10 * DecimalValue(SubSeq(s, 1, Len(s) - 1)) + DigitVal(s[Len(s)])

RECURSIVE DigitPrefixLen(_)
\* the length of the longest prefix of s made of digits
DigitPrefixLen(s) ==
    IF s = <<>> \/ ~IsDigit(s[1]) THEN 0 ELSE 1 + DigitPrefixLen(Tail(s))

RECURSIVE SkipSpaces(_)
SkipSpaces(s) == IF s # <<>> /\ IsSpace(s[1]) THEN SkipSpaces(Tail(s)) ELSE s

\* A JavaScript number as far as the tools use one: NaN, or an integer.
NaN == [nan |-> TRUE, val |-> 0]
Num(n) == [nan |-> FALSE, val |-> n]

\* parseInt(s, 10): blanks, an optional sign, then the leading digits; NaN without digits
ParseInt(s) ==
    LET t == SkipSpaces(s)
        signed == t # <<>> /\ t[1] \in {"-", "+"}
        u == IF signed THEN Tail(t) ELSE t
        n == DigitPrefixLen(u)
    IN  IF n = 0 THEN NaN
        ELSE IF signed /\ t[1] = "-" THEN Num(0 - DecimalValue(SubSeq(u, 1, n)))
        ELSE Num(DecimalValue(SubSeq(u, 1, n)))

RECURSIVE NatToString(_)
NatToString(n) ==
    IF n < 10 THEN <<DigitChars[n + 1]>>
    ELSE NatToString(n \div 10) \o <<DigitChars[(n % 10) + 1]>>

\* String(x) of a number x
NumberToString(x) ==
    IF x.nan THEN <<"N", "a", "N">>
    ELSE IF x.val < 0 THEN <<"-">> \o NatToString(0 - x.val)
    ELSE NatToString(x.val)

\* String(x / 2) of a number x: a half-integer prints with ".5"
HalfToString(x) ==
    IF x.nan THEN <<"N", "a", "N">>
    ELSE LET a == IF x.val < 0 THEN 0 - x.val ELSE x.val
             body == NatToString(a \div 2) \o (IF a % 2 = 1 THEN <<".", "5">> ELSE <<>>)
         IN  IF x.val < 0 THEN <<"-">> \o body ELSE body

RECURSIVE SplitFrom(_, _, _)
\* s.split(sep) for a one-character separator; acc is the part being read
SplitFrom(s, sep, acc) ==
    IF s = <<>> THEN <<acc>>
    ELSE IF s[1] = sep THEN <<acc>> \o SplitFrom(Tail(s), sep, <<>>)
    ELSE SplitFrom(Tail(s), sep, Append(acc, s[1]))

Split(s, sep) == SplitFrom(s, sep, <<>>)

----------------------------------------------------------------------------
(* src/helpers.ts: constants                                               *)

SENSE_PREFIX == <<"s", "e", "n", "s", "e", "-">>
ENTRY_PREFIX == <<"e", "n", "t", "r", "y", "-">>

\* bookMap: the value stored under key '001' is bookMap[1], ... '123' is bookMap[123]
bookMap == <<
    <<"G","E","N">>, <<"E","X","O">>, <<"L","E","V">>, <<"N","U","M">>, <<"D","E","U">>, <<"J","O","S">>,
    <<"J","D","G">>, <<"R","U","T">>, <<"1","S","A">>, <<"2","S","A">>, <<"1","K","I">>, <<"2","K","I">>,
    <<"1","C","H">>, <<"2","C","H">>, <<"E","Z","R">>, <<"N","E","H">>, <<"E","S","T">>, <<"J","O","B">>,
    <<"P","S","A">>, <<"P","R","O">>, <<"E","C","C">>, <<"S","N","G">>, <<"I","S","A">>, <<"J","E","R">>,
    <<"L","A","M">>, <<"E","Z","K">>, <<"D","A","N">>, <<"H","O","S">>, <<"J","O","L">>, <<"A","M","O">>,
    <<"O","B","A">>, <<"J","O","N">>, <<"M","I","C">>, <<"N","A","M">>, <<"H","A","B">>, <<"Z","E","P">>,
    <<"H","A","G">>, <<"Z","E","C">>, <<"M","A","L">>, <<"M","A","T">>, <<"M","R","K">>, <<"L","U","K">>,
    <<"J","H","N">>, <<"A","C","T">>, <<"R","O","M">>, <<"1","C","O">>, <<"2","C","O">>, <<"G","A","L">>,
    <<"E","P","H">>, <<"P","H","P">>, <<"C","O","L">>, <<"1","T","H">>, <<"2","T","H">>, <<"1","T","I">>,
    <<"2","T","I">>, <<"T","I","T">>, <<"P","H","M">>, <<"H","E","B">>, <<"J","A","S">>, <<"1","P","E">>,
    <<"2","P","E">>, <<"1","J","N">>, <<"2","J","N">>, <<"3","J","N">>, <<"J","U","D">>, <<"R","E","V">>,
    <<"T","O","B">>, <<"J","D","T">>, <<"E","S","G">>, <<"W","I","S">>, <<"S","I","R">>, <<"B","A","R">>,
    <<"L","J","E">>, <<"S","3","Y">>, <<"S","U","S">>, <<"B","E","L">>, <<"1","M","A">>, <<"2","M","A">>,
    <<"3","M","A">>, <<"4","M","A">>, <<"1","E","S">>, <<"2","E","S">>, <<"M","A","N">>, <<"P","S","2">>,
    <<"O","D","A">>, <<"P","S","S">>, <<"J","S","A">>, <<"J","D","B">>, <<"T","B","S">>, <<"S","S","T">>,
    <<"D","N","T">>, <<"B","L","T">>, <<"X","X","A">>, <<"X","X","B">>, <<"X","X","C">>, <<"X","X","D">>,
    <<"X","X","E">>, <<"X","X","F">>, <<"X","X","G">>, <<"F","R","T">>, <<"B","A","K">>, <<"O","T","H">>,
    <<"3","E","S">>, <<"E","Z","A">>, <<"5","E","Z">>, <<"6","E","Z">>, <<"I","N","T">>, <<"C","N","C">>,
    <<"G","L","O">>, <<"T","D","X">>, <<"N","D","X">>, <<"D","A","G">>, <<"P","S","3">>, <<"2","B","A">>,
    <<"L","B","A">>, <<"J","U","B">>, <<"E","N","O">>, <<"1","M","Q">>, <<"2","M","Q">>, <<"3","M","Q">>,
    <<"R","E","P">>, <<"4","B","A">>, <<"L","A","O">>
>>

\* bookCodeToNumber: the book code whose number is n is bookCodeToNumber[n]
bookCodeToNumber == <<
    <<"G","E","N">>, <<"E","X","O">>, <<"L","E","V">>, <<"N","U","M">>, <<"D","E","U">>, <<"J","O","S">>,
    <<"J","D","G">>, <<"R","U","T">>, <<"1","S","A">>, <<"2","S","A">>, <<"1","K","I">>, <<"2","K","I">>,
    <<"1","C","H">>, <<"2","C","H">>, <<"E","Z","R">>, <<"N","E","H">>, <<"E","S","T">>, <<"J","O","B">>,
    <<"P","S","A">>, <<"P","R","O">>, <<"E","C","C">>, <<"S","N","G">>, <<"I","S","A">>, <<"J","E","R">>,
    <<"L","A","M">>, <<"E","Z","K">>, <<"D","A","N">>, <<"H","O","S">>, <<"J","O","L">>, <<"A","M","O">>,
    <<"O","B","A">>, <<"J","O","N">>, <<"M","I","C">>, <<"N","A","M">>, <<"H","A","B">>, <<"Z","E","P">>,
    <<"H","A","G">>, <<"Z","E","C">>, <<"M","A","L">>, <<"M","A","T">>, <<"M","R","K">>, <<"L","U","K">>,
    <<"J","H","N">>, <<"A","C","T">>, <<"R","O","M">>, <<"1","C","O">>, <<"2","C","O">>, <<"G","A","L">>,
    <<"E","P","H">>, <<"P","H","P">>, <<"C","O","L">>, <<"1","T","H">>, <<"2","T","H">>, <<"1","T","I">>,
    <<"2","T","I">>, <<"T","I","T">>, <<"P","H","M">>, <<"H","E","B">>, <<"J","A","S">>, <<"1","P","E">>,
    <<"2","P","E">>, <<"1","J","N">>, <<"2","J","N">>, <<"3","J","N">>, <<"J","U","D">>, <<"R","E","V">>,
    <<"T","O","B">>, <<"J","D","T">>, <<"E","S","G">>, <<"W","I","S">>, <<"S","I","R">>, <<"B","A","R">>,
    <<"L","J","E">>, <<"S","3","Y">>, <<"S","U","S">>, <<"B","E","L">>, <<"1","M","A">>, <<"2","M","A">>,
    <<"3","M","A">>, <<"4","M","A">>, <<"1","E","S">>, <<"2","E","S">>, <<"M","A","N">>, <<"P","S","2">>,
    <<"O","D","A">>, <<"P","S","S">>, <<"J","S","A">>, <<"J","D","B">>, <<"T","B","S">>, <<"S","S","T">>,
    <<"D","N","T">>, <<"B","L","T">>, <<"X","X","A">>, <<"X","X","B">>, <<"X","X","C">>, <<"X","X","D">>,
    <<"X","X","E">>, <<"X","X","F">>, <<"X","X","G">>, <<"F","R","T">>, <<"B","A","K">>, <<"O","T","H">>,
    <<"3","E","S">>, <<"E","Z","A">>, <<"5","E","Z">>, <<"6","E","Z">>, <<"I","N","T">>, <<"C","N","C">>,
    <<"G","L","O">>, <<"T","D","X">>, <<"N","D","X">>, <<"D","A","G">>, <<"P","S","3">>, <<"2","B","A">>,
    <<"L","B","A">>, <<"J","U","B">>, <<"E","N","O">>, <<"1","M","Q">>, <<"2","M","Q">>, <<"3","M","Q">>,
    <<"R","E","P">>, <<"4","B","A">>, <<"L","A","O">>
>>

\* bookMap[bookId] || '': the keys are exactly the 3-digit strings '001'..'123'
BookMapGet(bookId) ==
    IF Len(bookId) = 3 /\ IsNumeric(bookId) /\ DecimalValue(bookId) \in DOMAIN bookMap
    THEN bookMap[DecimalValue(bookId)]
    ELSE <<>>

\* charCodeAt(0) of a character of the model's alphabet
CharCode(c) ==
    IF IsDigit(c) THEN 48 + DigitVal(c)
    ELSE IF c \in Range(UpperChars) THEN 64 + (CHOOSE i \in DOMAIN UpperChars : UpperChars[i] = c)
    ELSE IF c \in Range(LowerChars) THEN 96 + (CHOOSE i \in DOMAIN LowerChars : LowerChars[i] = c)
    ELSE 95

RECURSIVE CharCodeSum(_)
CharCodeSum(s) == IF s = <<>> THEN 0 ELSE CharCode(s[1]) + CharCodeSum(Tail(s))

----------------------------------------------------------------------------
(* src/helpers.ts: condenseSenseId                                         *)

RECURSIVE DiffPos(_, _, _)
\* the while loop that finds the first position where the parts differ (0-based)
DiffPos(prevPart, currPart, diffPos) ==
    IF diffPos < Len(prevPart) /\ prevPart[diffPos + 1] = currPart[diffPos + 1]
    THEN DiffPos(prevPart, currPart, diffPos + 1)
    ELSE diffPos

\* ScanPair looking only at the digit at diffPos instead of every later digit
ScanPair_FirstDigitOnly(prevPart, currPart, j, hasNonZeroInCurr) ==
    IF j >= Len(prevPart)
    THEN [allZerosInPrev |-> TRUE, hasNonZeroInCurr |-> hasNonZeroInCurr]
    ELSE [allZerosInPrev |-> prevPart[j + 1] = "0",
          hasNonZeroInCurr |-> currPart[j + 1] # "0"]

RECURSIVE ScanPair(_, _, _, _)
\* the for loop over j from diffPos: stops at the first non-zero digit of prevPart
ScanPair(prevPart, currPart, j, hasNonZeroInCurr) ==
    IF j >= Len(prevPart)
    THEN [allZerosInPrev |-> TRUE, hasNonZeroInCurr |-> hasNonZeroInCurr]
    ELSE IF prevPart[j + 1] # "0"
    THEN [allZerosInPrev |-> FALSE, hasNonZeroInCurr |-> hasNonZeroInCurr]
    ELSE ScanPair(prevPart, currPart, j + 1, hasNonZeroInCurr \/ currPart[j + 1] # "0")

RECURSIVE IsHierarchicalFrom(_, _)
\* the loop over i = 1 .. numericParts.length - 1 (0-based i), with its break
IsHierarchicalFrom(numericParts, i) ==
    IF i >= Len(numericParts) THEN TRUE
    ELSE LET prevPart == numericParts[i]
             currPart == numericParts[i + 1]
             r == ScanPair(prevPart, currPart, DiffPos(prevPart, currPart, 0), FALSE)
         IN  IF ~r.allZerosInPrev \/ ~r.hasNonZeroInCurr THEN FALSE
             ELSE IsHierarchicalFrom(numericParts, i + 1)

RECURSIVE OverlayFrom_Left(_, _, _)
\* OverlayFrom writing each later part over the left-hand end of result
OverlayFrom_Left(numericParts, i, result) ==
    IF i >= Len(numericParts) THEN result
    ELSE LET currentPart == numericParts[i + 1]
         IN  OverlayFrom_Left(numericParts, i + 1,
                 currentPart \o Substring(result, Len(currentPart), Len(result)))

RECURSIVE OverlayFrom(_, _, _)
\* the loop that overlays each later part on the right-hand end of result
OverlayFrom(numericParts, i, result) ==
    IF i >= Len(numericParts) THEN result
    ELSE LET currentPart == numericParts[i + 1]
             overlayPosition == Len(result) - Len(currentPart)
         IN  OverlayFrom(numericParts, i + 1,
                         Substring(result, 0, overlayPosition) \o currentPart)

condenseSenseId(id) ==
    IF id = <<>> \/ ~StartsWith(id, SENSE_PREFIX) THEN id
    ELSE LET parts == Split(id, "-") IN
    IF Len(parts) < 2 THEN id
    ELSE LET numericParts == Tail(parts) IN
    IF ~(\A i \in 1..Len(numericParts) : IsNumeric(numericParts[i])) THEN id
    ELSE IF \A i \in 1..Len(numericParts) : Len(numericParts[i]) = Len(numericParts[1])
    THEN IF IsHierarchicalFrom(numericParts, 1) /\ Len(numericParts) > 0
         THEN SENSE_PREFIX \o numericParts[Len(numericParts)]
         ELSE id
    ELSE IF Len(numericParts) >= 2
    THEN IF \E i \in 2..Len(numericParts) : Len(numericParts[i]) > Len(numericParts[i - 1])
         THEN id
         ELSE SENSE_PREFIX \o OverlayFrom(numericParts, 1, numericParts[1])
    ELSE id

----------------------------------------------------------------------------
(* src/helpers.ts: marbleLinkIdToU23003, getBookNumber, parseU23003Reference *)

\* marbleLinkIdToU23003 reading the word from position 9, the verse part included
marbleLinkIdToU23003_WordWithPart(id) ==
    IF id = <<>> \/ Len(id) # 14 THEN <<>>
    ELSE LET bookId == Substring(id, 0, 3)
             chapter == ParseInt(Substring(id, 3, 6))
             verse == ParseInt(Substring(id, 6, 9))
             word == ParseInt(Substring(id, 9, Len(id)))
             book == BookMapGet(bookId)
         IN  IF book = <<>> THEN <<>>
             ELSE book \o <<" ">> \o NumberToString(chapter) \o <<":">>
                       \o NumberToString(verse) \o <<"!">> \o HalfToString(word)

marbleLinkIdToU23003(id) ==
    IF id = <<>> \/ Len(id) # 14 THEN <<>>
    ELSE LET bookId == Substring(id, 0, 3)
             chapter == ParseInt(Substring(id, 3, 6))
             verse == ParseInt(Substring(id, 6, 9))
             word == ParseInt(Substring(id, 11, Len(id)))
             book == BookMapGet(bookId)
         IN  IF book = <<>> THEN <<>>
             ELSE book \o <<" ">> \o NumberToString(chapter) \o <<":">>
                       \o NumberToString(verse) \o <<"!">> \o HalfToString(word)

getBookNumber(bookCode) ==
    IF \E n \in DOMAIN bookCodeToNumber : bookCodeToNumber[n] = bookCode
    THEN CHOOSE n \in DOMAIN bookCodeToNumber : bookCodeToNumber[n] = bookCode
    ELSE CharCodeSum(bookCode)

RECURSIVE ClassPrefixLen(_, _)
\* the length of the longest prefix of s whose characters are all in class
ClassPrefixLen(s, class) ==
    IF s = <<>> \/ s[1] \notin class THEN 0 ELSE 1 + ClassPrefixLen(Tail(s), class)

Null == [null |-> TRUE]

\* reference.match(/^(\w+)\s+(\d+):(\d+)!(\d+)$/): the character classes are
\* disjoint from what follows each of them, so the greedy scan is the only match
parseU23003Reference(reference) ==
    LET n1 == ClassPrefixLen(reference, WordCharSet)
        r1 == Substring(reference, n1, Len(reference))
        n2 == ClassPrefixLen(r1, SpaceSet)
        r2 == Substring(r1, n2, Len(r1))
        n3 == DigitPrefixLen(r2)
        r3 == Substring(r2, n3, Len(r2))
        r4 == IF r3 # <<>> THEN Tail(r3) ELSE <<>>
        n4 == DigitPrefixLen(r4)
        r5 == Substring(r4, n4, Len(r4))
        r6 == IF r5 # <<>> THEN Tail(r5) ELSE <<>>
        n5 == DigitPrefixLen(r6)
        match == /\ n1 > 0 /\ n2 > 0 /\ n3 > 0 /\ n4 > 0 /\ n5 > 0
                 /\ r3 # <<>> /\ r3[1] = ":"
                 /\ r5 # <<>> /\ r5[1] = "!"
                 /\ n5 = Len(r6)
    IN  IF ~match THEN Null
        ELSE [bookNum |-> getBookNumber(Substring(reference, 0, n1)),
              chapterNum |-> ParseInt(Substring(r2, 0, n3)).val,
              verseNum |-> ParseInt(Substring(r4, 0, n4)).val,
              wordNum |-> ParseInt(Substring(r6, 0, n5)).val]

----------------------------------------------------------------------------
(* src/helpers.ts: transformDomainCode; the extractDomains helper of        *)
(* processFile in src/convert-marble-lexicon.ts                             *)

RECURSIVE AfterFirstNonDigit(_, _, _)
\* updatedCode: the loop over code, i counted from 1; the code from the first digit
\* that follows a non-digit, the whole code when no digit follows one
AfterFirstNonDigit(code, i, foundFirstNonDigit) ==
    IF i > Len(code) THEN code
    ELSE IF ~IsDigit(code[i]) THEN AfterFirstNonDigit(code, i + 1, TRUE)
    ELSE IF foundFirstNonDigit THEN SubSeq(code, i, Len(code))
    ELSE AfterFirstNonDigit(code, i + 1, FALSE)

RECURSIVE ChunksFrom_KeepZeros(_, _)
\* the chunks pushed as they are cut
ChunksFrom_KeepZeros(digitsOnly, i) ==
    IF i >= Len(digitsOnly) THEN <<>>
    ELSE (IF i + 3 <= Len(digitsOnly) THEN <<Substring(digitsOnly, i, i + 3)>> ELSE <<>>)
         \o ChunksFrom_KeepZeros(digitsOnly, i + 3)

RECURSIVE ChunksFrom(_, _)
\* the loop that cuts digitsOnly into chunks of 3 characters, i counted from 0
ChunksFrom(digitsOnly, i) ==
    IF i >= Len(digitsOnly) THEN <<>>
    ELSE (IF i + 3 <= Len(digitsOnly)
          THEN <<NumberToString(ParseInt(Substring(digitsOnly, i, i + 3)))>>
          ELSE <<>>)
         \o ChunksFrom(digitsOnly, i + 3)

RECURSIVE Join(_, _)
\* chunks.join(sep)
Join(chunks, sep) ==
    IF chunks = <<>> THEN <<>>
    ELSE IF Len(chunks) = 1 THEN chunks[1]
    ELSE chunks[1] \o <<sep>> \o Join(Tail(chunks), sep)

InvalidLengthWarning(code) == [warning |-> "Invalid domain code length", code |-> code]

\* the array returned and the warnings written
transformDomainCode(code) ==
    IF code = <<>> THEN [codes |-> <<>>, warnings |-> <<>>]
    ELSE IF Len(code) = 7 /\ code[4] = "."
    THEN [codes |-> <<NumberToString(ParseInt(Substring(code, 0, 3))),
                      NumberToString(ParseInt(Substring(code, 4, 7)))>>,
          warnings |-> <<>>]
    ELSE LET digitsOnly == SelectSeq(AfterFirstNonDigit(code, 1, FALSE), IsDigit)
         IN  IF digitsOnly = <<>> THEN [codes |-> <<>>, warnings |-> <<>>]
             ELSE IF Len(digitsOnly) % 3 # 0
             THEN [codes |-> <<code>>, warnings |-> <<InvalidLengthWarning(code)>>]
             ELSE [codes |-> <<Join(ChunksFrom(digitsOnly, 0), ".")>>, warnings |-> <<>>]

\* codes.forEach(code => domains.push({ taxonomy, code, value }))
DomainsOf(taxonomy, codes, value) ==
    [k \in DOMAIN codes |-> [taxonomy |-> taxonomy, code |-> codes[k], value |-> value]]

EmptyCodeWarning(tagName, value) == [warning |-> "Empty code", tag |-> tagName, value |-> value]

RECURSIVE DomainElements(_, _, _, _, _)
\* one of the two loops of extractDomains over the child elements of a domains
\* element; an element is [Code |-> the attribute, value |-> the trimmed text].  In
\* the loop over the regular domains an element without code and with value "-" is
\* passed without a warning.
DomainElements(elements, taxonomy, tagName, regular, acc) ==
    IF elements = <<>> THEN acc
    ELSE LET r == transformDomainCode(elements[1].Code)
             value == elements[1].value
             next ==
                IF Len(r.codes) = 0
                THEN IF regular /\ value = "-"
                     THEN [acc EXCEPT !.warnings = @ \o r.warnings]
                     ELSE [acc EXCEPT !.warnings =
                              @ \o r.warnings \o <<EmptyCodeWarning(tagName, value)>>]
                ELSE [domains |-> acc.domains \o DomainsOf(taxonomy, r.codes, value),
                      warnings |-> acc.warnings \o r.warnings]
         IN  DomainElements(Tail(elements), taxonomy, tagName, regular, next)

NoDomains == [domains |-> <<>>, warnings |-> <<>>]

\* the first element with a tag name under a container: not there, or its children
Absent == [present |-> FALSE, elements |-> <<>>]
Present(elements) == [present |-> TRUE, elements |-> elements]

\* the argument of extractDomains when another helper is the one called
NoContainer == [subDomains |-> Absent, domains |-> Absent, withSubDomains |-> FALSE]

\* extractDomains(container, taxonomy, domainTagName, childTagName, subDomainTagName,
\* subDomainChildTagName).  container.subDomains and container.domains are the first
\* sub-domains element and the first domains element of the container;
\* withSubDomains tells that the two sub-domain tag names were passed.
extractDomains(container, taxonomy, withSubDomains) ==
    LET sub == IF withSubDomains /\ container.subDomains.present
               THEN DomainElements(container.subDomains.elements, taxonomy, "sub", FALSE,
                                   NoDomains)
               ELSE NoDomains
    IN  IF Len(sub.domains) > 0 THEN sub
        ELSE IF container.domains.present
        THEN DomainElements(container.domains.elements, taxonomy, "domain", TRUE, sub)
        ELSE sub

----------------------------------------------------------------------------
(* The helper functions applied to bounded inputs                          *)

\* the last key of bookMap
LastBookNumber == 123

\* book segments 000..MaxBookSeg are tried: every known book and some unknown ones
MaxBookSeg == 125
\* the longest numeric segment of a sense id that is tried
MaxSegLen == 2
\* a sense id of the converter has at most four numeric segments:
\* entry, base form, lexical meaning and contextual meaning
MaxIdSegments == 4

Pad3(n) == <<DigitChars[((n \div 100) % 10) + 1], DigitChars[((n \div 10) % 10) + 1],
             DigitChars[(n % 10) + 1]>>

BookSegs == {Pad3(n) : n \in 0..MaxBookSeg} \cup {<<"9", "9", "9">>, <<"0", "x", "1">>}
ChapterSegs == {<<"0", "0", "0">>, <<"0", "0", "1">>, <<"1", "5", "0">>, <<"1", "x", "2">>}
VerseSegs == {<<"0", "0", "1">>, <<"0", "2", "2">>, <<"1", "7", "6">>}
PartSegs == {<<"0", "0">>, <<"0", "7">>}
WordSegs == {<<"0", "0", "0">>, <<"0", "0", "2">>, <<"0", "1", "2">>, <<"2", "0", "0">>,
             <<"0", "0", "3">>, <<"0", "1", "x">>}

LinkIdInputs ==
    {b \o c \o v \o p \o w : b \in BookSegs, c \in ChapterSegs, v \in VerseSegs,
                             p \in PartSegs, w \in WordSegs}
    \cup {<<>>, <<"0", "4", "2", "0", "0", "1", "0", "0", "1">>}
    \cup {b \o <<"0", "0", "1", "0", "0", "1", "0", "0", "0", "0">> : b \in BookSegs}
    \cup {b \o <<"0", "0", "1", "0", "0", "1", "0", "0", "0", "0", "2", "0">> : b \in BookSegs}

SegDigits == {"0", "1"}
Segments == UNION {[1..n -> SegDigits] : n \in 1..MaxSegLen}

RECURSIVE JoinSegs(_)
JoinSegs(segs) ==
    IF Len(segs) = 1 THEN segs[1] ELSE segs[1] \o <<"-">> \o JoinSegs(Tail(segs))

SenseIdInputs ==
    {SENSE_PREFIX \o JoinSegs(segs) : segs \in UNION {[1..n -> Segments] : n \in 2..MaxIdSegments}}
    \cup {<<>>, <<"s", "e", "n", "s", "e">>, SENSE_PREFIX, SENSE_PREFIX \o <<"1", "2">>,
          ENTRY_PREFIX \o <<"1", "0", "-", "1", "2">>,
          SENSE_PREFIX \o <<"a", "b", "-", "1", "2">>,
          SENSE_PREFIX \o <<"1", "0", "-", "-", "1", "2">>}

\* the longest domain code tried with noise characters, and with digits only
MaxCodeLen == 7
MaxDigitCodeLen == 9
\* the most child elements of a domains element
MaxDomainElements == 2

CodeChars == {"0", "1", ".", "x"}
DomainCodeInputs ==
    UNION {[1..n -> CodeChars] : n \in 0..MaxCodeLen}
    \cup UNION {[1..n -> {"0", "1"}] : n \in 0..MaxDigitCodeLen}
    \cup {<<"0", "0", "1", "0", "0", "2", "0", "0", "3">>, <<"1", "2", "3">>,
          <<"0", "0", "1", "0", "4", "2", "0", "9", "9">>,
          <<"0", "0", "1", "0", "0", "2", "1", "2">>, <<"1", "2", "3", ":", "4", "5", "6">>,
          <<"0", "0", "1", ".", "0", "2", "x">>}

DomainElementInputs ==
    {[Code |-> c, value |-> v] :
        c \in {<<>>, <<"0", "0", "1", "0", "0", "2">>, <<"0", "0", "1", "0">>},
        v \in {"v", "-"}}
DomainElementLists ==
    {Absent} \cup {Present(es) : es \in UNION {[1..n -> DomainElementInputs] :
                                                  n \in 0..MaxDomainElements}}
ContainerInputs ==
    {[subDomains |-> s, domains |-> d, withSubDomains |-> w] :
        s \in DomainElementLists, d \in DomainElementLists, w \in BOOLEAN}

HelpersInit ==
    /\ hpc = "start"
    /\ hArg \in {[kind |-> "link", s |-> id] : id \in LinkIdInputs}
                \cup {[kind |-> "sense", s |-> id] : id \in SenseIdInputs}
                \cup {[kind |-> "domain", s |-> code] : code \in DomainCodeInputs}
                \cup {[kind |-> "domains", s |-> <<>>]}
    /\ hContainer \in IF hArg.kind = "domains" THEN ContainerInputs ELSE {NoContainer}
    /\ hRef = <<>>
    /\ hParsed = Null
    /\ hCondensed = <<>>
    /\ hCodes = <<>>
    /\ hDomains = <<>>
    /\ hConsole = <<>>
    /\ ConvertIdle
    /\ LoadIdle
    /\ DomainsIdle
    /\ TaxonomyIdle

CallMarbleLinkIdToU23003 ==
    /\ hpc = "start"
    /\ hArg.kind = "link"
    /\ hRef' = marbleLinkIdToU23003(hArg.s)
    /\ hpc' = "converted"
    /\ UNCHANGED <<hArg, hContainer, hParsed, hCondensed, hCodes, hDomains, hConsole, convertVars, loadVars, domainVars, taxonomyVars>>

CallParseU23003Reference ==
    /\ hpc = "converted"
    /\ hParsed' = parseU23003Reference(hRef)
    /\ hpc' = "parsed"
    /\ UNCHANGED <<hArg, hContainer, hRef, hCondensed, hCodes, hDomains, hConsole, convertVars, loadVars, domainVars, taxonomyVars>>

CallCondenseSenseId ==
    /\ hpc = "start"
    /\ hArg.kind = "sense"
    /\ hCondensed' = condenseSenseId(hArg.s)
    /\ hpc' = "condensed"
    /\ UNCHANGED <<hArg, hContainer, hRef, hParsed, hCodes, hDomains, hConsole, convertVars, loadVars, domainVars, taxonomyVars>>

CallTransformDomainCode ==
    /\ hpc = "start"
    /\ hArg.kind = "domain"
    /\ hCodes' = transformDomainCode(hArg.s).codes
    /\ hConsole' = transformDomainCode(hArg.s).warnings
    /\ hpc' = "transformed"
    /\ UNCHANGED <<hArg, hContainer, hRef, hParsed, hCondensed, hDomains, convertVars, loadVars, domainVars, taxonomyVars>>

\* extractDomains as processFile calls it for a LEXMeaning (with the sub-domain tag
\* names) and for a ContextualMeaning (without)
CallExtractDomains ==
    /\ hpc = "start"
    /\ hArg.kind = "domains"
    /\ hDomains' = extractDomains(hContainer, "taxonomy", hContainer.withSubDomains).domains
    /\ hConsole' = extractDomains(hContainer, "taxonomy", hContainer.withSubDomains).warnings
    /\ hpc' = "extracted"
    /\ UNCHANGED <<hArg, hContainer, hRef, hParsed, hCondensed, hCodes, convertVars, loadVars, domainVars, taxonomyVars>>

HelpersNext ==
    \/ CallMarbleLinkIdToU23003
    \/ CallParseU23003Reference
    \/ CallCondenseSenseId
    \/ CallTransformDomainCode
    \/ CallExtractDomains

SpecHelpers == HelpersInit /\ [][HelpersNext]_vars

----------------------------------------------------------------------------
(* Claims about the helper functions                                       *)

\* the decimal value of the three characters of s that start at position i (1-based)
Val3(s, i) == 100 * DigitVal(s[i]) + 10 * DigitVal(s[i + 1]) + DigitVal(s[i + 2])

EncodedEvenKnown(id) ==
    /\ Len(id) = 14
    /\ \A i \in 1..14 : IsDigit(id[i])
    /\ DigitVal(id[14]) \in {0, 2, 4, 6, 8}
    /\ Val3(id, 1) \in 1..LastBookNumber

\* C1: for every 14-digit encoded location BBBCCCVVVPPWWW with an even final digit
\* and a book segment in 001..123, parseU23003Reference(marbleLinkIdToU23003(id)) is
\* non-null and equals (BBB, CCC, VVV, WWW/2) as integers, whatever the digits PP are.
C1_RoundTrip ==
    (hpc = "parsed" /\ hArg.kind = "link" /\ EncodedEvenKnown(hArg.s)) =>
        /\ hParsed # Null
        /\ hParsed.bookNum = Val3(hArg.s, 1)
        /\ hParsed.chapterNum = Val3(hArg.s, 4)
        /\ hParsed.verseNum = Val3(hArg.s, 7)
        /\ 2 * hParsed.wordNum = Val3(hArg.s, 12)

C1_Witness ==
    /\ hpc = "parsed" /\ hArg.kind = "link" /\ EncodedEvenKnown(hArg.s)
    /\ SubSeq(hArg.s, 10, 11) # <<"0", "0">>
    /\ hParsed # Null
    /\ hParsed.bookNum = LastBookNumber
    /\ hParsed.wordNum = 100

\* C2: marbleLinkIdToU23003 returns the empty string for every input that is not
\* exactly 14 decimal digits or whose first three digits are no known book code, and a
\* non-empty reference only for 14 digits with a known book segment.
C2_InvalidMarker ==
    (hpc = "converted" /\ hArg.kind = "link") =>
        (hRef # <<>> <=>
            /\ Len(hArg.s) = 14
            /\ \A i \in 1..14 : IsDigit(hArg.s[i])
            /\ Val3(hArg.s, 1) \in 1..LastBookNumber)

\* the numeric segments of a sense id: what follows "sense-", cut at the hyphens
SegmentsOf(id) == Split(SubSeq(id, Len(SENSE_PREFIX) + 1, Len(id)), "-")

NumericId(id) ==
    /\ StartsWith(id, SENSE_PREFIX)
    /\ Len(SegmentsOf(id)) >= 2
    /\ \A i \in 1..Len(SegmentsOf(id)) : IsNumeric(SegmentsOf(id)[i])

EqualLengths(segs) == \A i \in 1..Len(segs) : Len(segs[i]) = Len(segs[1])

\* the earlier segment p is all zeros from the first position where it differs from
\* the later segment c, and c has a non-zero digit from there on
PairIsHierarchical(p, c) ==
    LET diff == {k \in 1..Len(p) : p[k] # c[k]}
    IN  /\ diff # {}
        /\ LET d == CHOOSE k \in diff : \A m \in diff : k <= m
           IN  /\ \A k \in d..Len(p) : p[k] = "0"
               /\ \E k \in d..Len(p) : c[k] # "0"

\* C9: on 'sense-' + two or more numeric segments of equal length, condenseSenseId
\* returns 'sense-' + the last segment iff every adjacent pair is hierarchical (the
\* earlier one all zeros from the first difference on, the later one with a non-zero
\* digit there), and the input unchanged otherwise (identical pairs included).
C9_EqualLength ==
    (hpc = "condensed" /\ NumericId(hArg.s) /\ EqualLengths(SegmentsOf(hArg.s))) =>
        LET segs == SegmentsOf(hArg.s)
        IN  IF \A i \in 1..(Len(segs) - 1) : PairIsHierarchical(segs[i], segs[i + 1])
            THEN hCondensed = SENSE_PREFIX \o segs[Len(segs)]
            ELSE hCondensed = hArg.s

C9_Witness ==
    /\ hpc = "condensed" /\ NumericId(hArg.s) /\ EqualLengths(SegmentsOf(hArg.s))
    /\ Len(SegmentsOf(hArg.s)) >= 3
    /\ Len(SegmentsOf(hArg.s)[1]) >= 2
    /\ hCondensed = SENSE_PREFIX \o SegmentsOf(hArg.s)[Len(SegmentsOf(hArg.s))]

\* the digit at distance r from the right-hand end (r = 0 is the last digit) after all
\* overlays: that of the last segment long enough to reach it
OverlaidDigit(segs, r) ==
    LET k == CHOOSE i \in 1..Len(segs) :
                 /\ Len(segs[i]) > r
                 /\ \A j \in 1..Len(segs) : Len(segs[j]) > r => j <= i
    IN  segs[k][Len(segs[k]) - r]

\* C10: on 'sense-' + two or more numeric segments not all of equal length,
\* condenseSenseId returns the input unchanged if some segment is longer than its
\* predecessor; otherwise 'sense-' + the first segment with each later segment, in
\* order, written over its trailing digits, so the result has the first segment's length.
C10_DifferentLength ==
    (hpc = "condensed" /\ NumericId(hArg.s) /\ ~EqualLengths(SegmentsOf(hArg.s))) =>
        LET segs == SegmentsOf(hArg.s)
            n == Len(segs[1])
        IN  IF \E i \in 2..Len(segs) : Len(segs[i]) > Len(segs[i - 1])
            THEN hCondensed = hArg.s
            ELSE hCondensed = SENSE_PREFIX \o [p \in 1..n |-> OverlaidDigit(segs, n - p)]

C10_Witness ==
    /\ hpc = "condensed" /\ NumericId(hArg.s) /\ ~EqualLengths(SegmentsOf(hArg.s))
    /\ Len(SegmentsOf(hArg.s)) >= 3
    /\ \A i \in 2..Len(SegmentsOf(hArg.s)) :
           Len(SegmentsOf(hArg.s)[i]) <= Len(SegmentsOf(hArg.s)[i - 1])
    /\ hCondensed # SENSE_PREFIX \o SegmentsOf(hArg.s)[1]
    /\ Len(hCondensed) = Len(SENSE_PREFIX) + Len(SegmentsOf(hArg.s)[1])

\* the input consists of decimal digits only
DigitsOnlyInput(s) == \A i \in DOMAIN s : IsDigit(s[i])

\* the value of the k-th group of three digits of s
ChunkValue(s, k) ==
    100 * DigitVal(s[3 * k - 2]) + 10 * DigitVal(s[3 * k - 1]) + DigitVal(s[3 * k])

\* a decimal integer written without leading zeros
NoLeadingZero(part) == IsNumeric(part) /\ (Len(part) = 1 \/ part[1] # "0")

\* C11: for a non-empty input of decimal digits whose length is a multiple of three
\* transformDomainCode returns exactly one code, the consecutive 3-digit chunks each
\* written as a decimal integer without leading zeros and joined by '.'; for the empty
\* input it returns no code.
C11_ChunkedCode ==
    (hpc = "transformed") =>
        /\ hArg.s = <<>> => hCodes = <<>>
        /\ (hArg.s # <<>> /\ DigitsOnlyInput(hArg.s) /\ Len(hArg.s) % 3 = 0) =>
              /\ Len(hCodes) = 1
              /\ LET parts == Split(hCodes[1], ".")
                 IN  /\ Len(parts) = Len(hArg.s) \div 3
                     /\ \A k \in DOMAIN parts :
                           /\ NoLeadingZero(parts[k])
                           /\ DecimalValue(parts[k]) = ChunkValue(hArg.s, k)

\* nine digits in, three chunks out: one with leading zeros dropped, one with a
\* trailing zero kept, one of zeros only
C11_Witness ==
    /\ hpc = "transformed"
    /\ hArg.s = <<"0", "0", "1", "0", "1", "0", "0", "0", "0">>
    /\ hCodes = << <<"1", ".", "1", "0", ".", "0">> >>

\* the digits left of a code by the removal of everything up to the first digit that
\* follows a non-digit, and then of every non-digit
DigitsAfterNoise(code) == SelectSeq(AfterFirstNonDigit(code, 1, FALSE), IsDigit)

\* the elements extractDomains has read when it returns: those of the sub-domains
\* element when it looks for one and finds it, and those of the domains element
\* unless the sub-domains gave a code
SubDomainsRead(container) ==
    IF container.withSubDomains /\ container.subDomains.present
    THEN Range(container.subDomains.elements) ELSE {}

ElementsRead(container) ==
    SubDomainsRead(container)
    \cup (IF container.domains.present
              /\ \A e \in SubDomainsRead(container) : transformDomainCode(e.Code).codes = <<>>
           THEN Range(container.domains.elements) ELSE {})

\* C12: when the digits that remain after noise removal have a length that is not a
\* multiple of three, transformDomainCode emits a warning and returns the input string
\* unchanged as its single code, and extractDomains attaches that string as the code
\* of a Domain with the element's value.
C12_MalformedSurfaced ==
    /\ (hpc = "transformed" /\ Len(DigitsAfterNoise(hArg.s)) % 3 # 0) =>
          /\ hCodes = <<hArg.s>>
          /\ hConsole = <<InvalidLengthWarning(hArg.s)>>
    /\ hpc = "extracted" =>
          \A e \in ElementsRead(hContainer) :
              Len(DigitsAfterNoise(e.Code)) % 3 # 0 =>
                  /\ [taxonomy |-> "taxonomy", code |-> e.Code, value |-> e.value]
                        \in Range(hDomains)
                  /\ InvalidLengthWarning(e.Code) \in Range(hConsole)

----------------------------------------------------------------------------
(* src/convert-marble-lexicon.ts: the in-memory lexicon                    *)

EmptyMap == [x \in {} |-> x]

\* Sense.conIndex is undefined for a lexical sense, a number for a contextual one
NoConIndex == [defined |-> FALSE, val |-> 0]
ConIndexOf(n) == [defined |-> TRUE, val |-> n]

DICTIONARY_TYPE_GREEK == <<"S", "D", "B", "G">>
DICTIONARY_TYPE_HEBREW == <<"S", "D", "B", "H">>
MIN_LEXICAL == 3
MIN_CONTEXTUAL == 5

\* String.prototype.trim and toUpperCase
RECURSIVE TrimEnd(_)
TrimEnd(s) == IF s # <<>> /\ IsSpace(s[Len(s)]) THEN TrimEnd(SubSeq(s, 1, Len(s) - 1)) ELSE s
Trim(s) == TrimEnd(SkipSpaces(s))

ToUpperChar(c) ==
    IF c \in Range(LowerChars)
    THEN UpperChars[CHOOSE i \in DOMAIN LowerChars : LowerChars[i] = c]
    ELSE c
ToUpperCase(s) == [i \in DOMAIN s |-> ToUpperChar(s[i])]

RECURSIVE UniqueInOrder(_, _)
\* Array.from(new Set(xs)): the distinct elements in order of first appearance
UniqueInOrder(xs, acc) ==
    IF xs = <<>> THEN acc
    ELSE UniqueInOrder(Tail(xs), IF xs[1] \in Range(acc) THEN acc ELSE Append(acc, xs[1]))

\* /^\d{14}$/
IsFourteenDigits(s) == Len(s) = 14 /\ \A i \in 1..14 : IsDigit(s[i])

\* ['0', '2', '4', '6', '8'].includes(id[13])
HasEvenLastDigit(id) == id[14] \in {"0", "2", "4", "6", "8"}

\* one CONReference text whose last digit is not looked at
ConReferenceOf_AnyParity(text) ==
    LET referenceId == Substring(Trim(text), 0, 14)
    IN  IF referenceId = <<>> \/ ~IsFourteenDigits(referenceId) THEN <<>>
        ELSE marbleLinkIdToU23003(referenceId)

\* one CONReference text: the reference pushed, or the empty string when the text is
\* skipped
ConReferenceOf(text) ==
    LET referenceId == Substring(Trim(text), 0, 14)
    IN  IF referenceId = <<>> \/ ~IsFourteenDigits(referenceId) THEN <<>>
        ELSE IF ~HasEvenLastDigit(referenceId) THEN <<>>
        ELSE marbleLinkIdToU23003(referenceId)

RECURSIVE ConReferencesFrom(_, _)
ConReferencesFrom(texts, occurrences) ==
    IF texts = <<>> THEN occurrences
    ELSE LET u23003Reference == ConReferenceOf(texts[1])
         IN  ConReferencesFrom(Tail(texts),
                 IF u23003Reference = <<>> THEN occurrences
                 ELSE Append(occurrences, u23003Reference))

\* the occurrences of one ContextualMeaning from the texts of its CONReference elements
extractCONReferences(texts) == UniqueInOrder(ConReferencesFrom(texts, <<>>), <<>>)

\* the two places of processFile that create the entry when it is missing and push
\* a sense onto it
PushSense(ebl, languageCode, lemma, entryId, sense) ==
    LET byLemma == IF languageCode \in DOMAIN ebl THEN ebl[languageCode] ELSE EmptyMap
        entry == IF lemma \in DOMAIN byLemma THEN byLemma[lemma]
                 ELSE [lemma |-> lemma, id |-> ENTRY_PREFIX \o entryId, senses |-> <<>>]
        pushed == [entry EXCEPT !.senses = Append(@, sense)]
        byLemma2 == [l \in DOMAIN byLemma \cup {lemma} |->
                        IF l = lemma THEN pushed ELSE byLemma[l]]
    IN  [lc \in DOMAIN ebl \cup {languageCode} |->
            IF lc = languageCode THEN byLemma2 ELSE ebl[lc]]

RECURSIVE UniqueDomainsFrom(_, _)
\* the Map keyed by taxonomy and code: the first domain of each key, in insertion order
UniqueDomainsFrom(allDomains, uniqueDomains) ==
    IF allDomains = <<>> THEN uniqueDomains
    ELSE LET domain == allDomains[1]
         IN  UniqueDomainsFrom(Tail(allDomains),
                 IF \E k \in DOMAIN uniqueDomains :
                       /\ uniqueDomains[k].taxonomy = domain.taxonomy
                       /\ uniqueDomains[k].code = domain.code
                 THEN uniqueDomains
                 ELSE Append(uniqueDomains, domain))

\* the domains of a sense: both lists, without empty codes and without repeats; the
\* empty sequence stands for undefined, which the code returns in place of an empty array
combineDomains(domains, coreDomains) ==
    UniqueDomainsFrom(SelectSeq(domains \o coreDomains, LAMBDA domain : domain.code # <<>>),
                      <<>>)

LexSenseId(entryId, baseFormId, lexMeaningId) ==
    SENSE_PREFIX \o entryId \o <<"-">> \o baseFormId \o <<"-">> \o lexMeaningId

ConSenseId(entryId, baseFormId, lexMeaningId, conMeaningId) ==
    LexSenseId(entryId, baseFormId, lexMeaningId) \o <<"-">> \o conMeaningId

----------------------------------------------------------------------------
(* verifyAndRemoveDuplicateSenses                                          *)

\* Step 1: sense.id = condenseSenseId(sense.id) for every sense
CondenseAll(ebl) ==
    [lc \in DOMAIN ebl |-> [l \in DOMAIN ebl[lc] |->
        [ebl[lc][l] EXCEPT !.senses = [i \in DOMAIN @ |->
            [@[i] EXCEPT !.id = condenseSenseId(@)]]]]]

\* the position in uniqueSenses of the sense with this id, 0 when there is none
IndexOfId(uniqueSenses, id) ==
    IF \E k \in DOMAIN uniqueSenses : uniqueSenses[k].id = id
    THEN CHOOSE k \in DOMAIN uniqueSenses : uniqueSenses[k].id = id
    ELSE 0

\* CombineSenses that never takes a field of the later sense
CombineSenses_KeepFirst(existingSense, sense) == existingSense

\* CombineSenses that also takes over the occurrences and the domains of the later sense
CombineSenses_CarryOver(existingSense, sense) ==
    [existingSense EXCEPT
        !.definition = IF @ = "" THEN sense.definition ELSE @,
        !.glosses = IF Len(@) = 0 THEN sense.glosses ELSE @,
        !.occurrences = @ \o sense.occurrences,
        !.domains = combineDomains(@, sense.domains)]

\* the merge of a later sense with the same id into the one already kept
CombineSenses(existingSense, sense) ==
    LET canCombine == /\ (existingSense.definition = "" \/ sense.definition = "")
                      /\ (Len(existingSense.glosses) = 0 \/ Len(sense.glosses) = 0)
    IN  IF canCombine
        THEN [existingSense EXCEPT
                !.definition = IF @ = "" /\ sense.definition # "" THEN sense.definition ELSE @,
                !.glosses = IF Len(@) = 0 /\ Len(sense.glosses) # 0 THEN sense.glosses ELSE @]
        ELSE existingSense

RECURSIVE UniqueSensesFrom(_, _)
\* the loop over entry.senses; uniqueSenses keeps its keys in insertion order
UniqueSensesFrom(senses, uniqueSenses) ==
    IF senses = <<>> THEN uniqueSenses
    ELSE LET sense == senses[1]
             k == IndexOfId(uniqueSenses, sense.id)
         IN  UniqueSensesFrom(Tail(senses),
                 IF k # 0
                 THEN [uniqueSenses EXCEPT ![k] = CombineSenses(@, sense)]
                 ELSE Append(uniqueSenses, sense))

removeDuplicateSensesWithinEntry(ebl) ==
    [lc \in DOMAIN ebl |-> [l \in DOMAIN ebl[lc] |->
        [ebl[lc][l] EXCEPT !.senses = UniqueSensesFrom(@, <<>>)]]]

\* the positions of the senses of one language: <<lemma, index>>
SensePositions(entries) ==
    UNION {{<<l, i>> : i \in DOMAIN entries[l].senses} : l \in DOMAIN entries}

\* Step 3 throws for this language: an entry id or a sense id is met a second time
HasDuplicateIds_EntriesOnly(entries) ==
    \E l1, l2 \in DOMAIN entries : l1 # l2 /\ entries[l1].id = entries[l2].id

HasDuplicateIds(entries) ==
    \/ \E l1, l2 \in DOMAIN entries : l1 # l2 /\ entries[l1].id = entries[l2].id
    \/ \E p, q \in SensePositions(entries) :
          p # q /\ entries[p[1]].senses[p[2]].id = entries[q[1]].senses[q[2]].id

\* the result of the call: the lexicon after steps 1 and 2, and whether step 3 threw
verifyAndRemoveDuplicateSenses(ebl) ==
    LET deduped == removeDuplicateSensesWithinEntry(CondenseAll(ebl))
    IN  [entries |-> deduped,
         threw |-> \E lc \in DOMAIN deduped : HasDuplicateIds(deduped[lc])]

----------------------------------------------------------------------------
(* processMarbleLinksFile, processLexicalLink                              *)

isDictionaryTypeMismatch(linkText, expectedDictionaryType) ==
    LET parts == Split(linkText, ":")
    IN  IF Len(parts) < 1 THEN FALSE
        ELSE ToUpperCase(parts[1]) # expectedDictionaryType

\* sense.baseFormIndex !== baseFormIndex and the like: a number against a parsed number
SameNumber(n, parsed) == ~parsed.nan /\ n = parsed.val
SameConIndex(conIndex, parsed) == conIndex.defined /\ SameNumber(conIndex.val, parsed)

SenseMatches(sense, baseFormIndex, lexMeaningIndex, hasConMeaning, conMeaningIndex) ==
    /\ SameNumber(sense.baseFormIndex, baseFormIndex)
    /\ SameNumber(sense.lexIndex, lexMeaningIndex)
    /\ (hasConMeaning => SameConIndex(sense.conIndex, conMeaningIndex))

\* the last sense of the entry that passes the tests, 0 when none does
FirstMatch_Last(senses, baseFormIndex, lexMeaningIndex, hasConMeaning, conMeaningIndex) ==
    LET hits == {i \in DOMAIN senses :
                    SenseMatches(senses[i], baseFormIndex, lexMeaningIndex,
                                 hasConMeaning, conMeaningIndex)}
    IN  IF hits = {} THEN 0 ELSE CHOOSE i \in hits : \A j \in hits : i >= j

\* the first sense of the entry the loop stops at, 0 when it stops at none
FirstMatch(senses, baseFormIndex, lexMeaningIndex, hasConMeaning, conMeaningIndex) ==
    LET hits == {i \in DOMAIN senses :
                    SenseMatches(senses[i], baseFormIndex, lexMeaningIndex,
                                 hasConMeaning, conMeaningIndex)}
    IN  IF hits = {} THEN 0 ELSE CHOOSE i \in hits : \A j \in hits : i <= j

\* the return value and the lexicon after the call
processLexicalLink(linkText, reference, ebl, dictType) ==
    LET parts == Split(linkText, ":")
        failed == [updatedAny |-> FALSE, entries |-> ebl]
    IN  IF Len(parts) < 3 THEN failed
        ELSE LET linkDictionaryType == parts[1]
                 lemma == parts[2]
                 senseIndex == parts[3]
             IN  IF ToUpperCase(linkDictionaryType) # dictType THEN failed
                 ELSE IF lemma = <<>> \/ senseIndex = <<>> THEN failed
                 ELSE IF Len(senseIndex) # 6 /\ Len(senseIndex) # 9 THEN failed
                 ELSE LET baseFormIndex == ParseInt(Substring(senseIndex, 0, 3))
                          lexMeaningIndex == ParseInt(Substring(senseIndex, 3, 6))
                          hasConMeaning == Len(senseIndex) = 9
                          conMeaningIndex == IF hasConMeaning
                                             THEN ParseInt(Substring(senseIndex, 6, 9))
                                             ELSE Num(-1)
                          hit(lc) == IF lemma \in DOMAIN ebl[lc]
                                     THEN FirstMatch(ebl[lc][lemma].senses, baseFormIndex,
                                              lexMeaningIndex, hasConMeaning, conMeaningIndex)
                                     ELSE 0
                      IN  [updatedAny |-> \E lc \in DOMAIN ebl : hit(lc) # 0,
                           entries |-> [lc \in DOMAIN ebl |->
                              IF hit(lc) = 0 THEN ebl[lc]
                              ELSE [ebl[lc] EXCEPT ![lemma].senses[hit(lc)].occurrences =
                                                       Append(@, reference)]]]

NoLinks == [totalLinks |-> 0, badLinks |-> 0, oddNumberLinks |-> 0,
            dictionaryMismatchLinks |-> 0, processedLinks |-> 0]

\* processMarbleLinksFile before its first MARBLELink
NewLinksFile == [links |-> NoLinks, linksToProcess |-> <<>>, collecting |-> TRUE]

RECURSIVE CollectLexicalLinks(_, _, _, _)
\* first loop, inner part: the LexicalLink elements of a MARBLELink whose id gave
\* `reference` are counted and the usable ones queued
CollectLexicalLinks(texts, reference, dictType, file) ==
    IF texts = <<>> THEN file
    ELSE LET linkText == Trim(texts[1])
             counted == [file EXCEPT !.links.totalLinks = @ + 1]
             next ==
                IF linkText = <<>> THEN [counted EXCEPT !.links.badLinks = @ + 1]
                ELSE IF isDictionaryTypeMismatch(linkText, dictType)
                THEN [counted EXCEPT !.links.dictionaryMismatchLinks = @ + 1]
                ELSE [counted EXCEPT !.linksToProcess =
                         Append(@, [linkText |-> linkText, reference |-> reference])]
         IN  CollectLexicalLinks(Tail(texts), reference, dictType, next)

\* first loop, one MARBLELink element with an odd id, counted in totalLinks only
CollectMarbleLink_OddUncounted(marbleLinkId, texts, dictType, file) ==
    IF marbleLinkId = <<>> \/ ~IsFourteenDigits(marbleLinkId)
    THEN [file EXCEPT !.links.totalLinks = @ + 1, !.links.badLinks = @ + 1]
    ELSE IF ~HasEvenLastDigit(marbleLinkId)
    THEN [file EXCEPT !.links.totalLinks = @ + 1]
    ELSE LET u23003Reference == marbleLinkIdToU23003(marbleLinkId)
         IN  IF u23003Reference = <<>>
             THEN [file EXCEPT !.links.totalLinks = @ + 1, !.links.badLinks = @ + 1]
             ELSE CollectLexicalLinks(texts, u23003Reference, dictType, file)

\* first loop, one MARBLELink element: its Id and the texts of its LexicalLink elements
CollectMarbleLink(marbleLinkId, texts, dictType, file) ==
    IF marbleLinkId = <<>> \/ ~IsFourteenDigits(marbleLinkId)
    THEN [file EXCEPT !.links.totalLinks = @ + 1, !.links.badLinks = @ + 1]
    ELSE IF ~HasEvenLastDigit(marbleLinkId)
    THEN [file EXCEPT !.links.totalLinks = @ + 1, !.links.oddNumberLinks = @ + 1]
    ELSE LET u23003Reference == marbleLinkIdToU23003(marbleLinkId)
         IN  IF u23003Reference = <<>>
             THEN [file EXCEPT !.links.totalLinks = @ + 1, !.links.badLinks = @ + 1]
             ELSE CollectLexicalLinks(texts, u23003Reference, dictType, file)

\* processMarbleLinksFiles: result added to the totals of the run
AddLinks(a, b) ==
    [totalLinks |-> a.totalLinks + b.totalLinks,
     badLinks |-> a.badLinks + b.badLinks,
     oddNumberLinks |-> a.oddNumberLinks + b.oddNumberLinks,
     dictionaryMismatchLinks |-> a.dictionaryMismatchLinks + b.dictionaryMismatchLinks,
     processedLinks |-> a.processedLinks + b.processedLinks]

----------------------------------------------------------------------------
(* removeEmptyEntriesAndSenses, removeDuplicateOccurrences, writeOutputFile *)

\* sense => sense.definition || sense.glosses.length > 0
IsValidSense(sense) == sense.definition # "" \/ Len(sense.glosses) > 0

RECURSIVE SumOver(_, _)
SumOver(S, f) ==
    IF S = {} THEN 0 ELSE LET x == CHOOSE y \in S : TRUE IN f[x] + SumOver(S \ {x}, f)

CountEntries(ebl) == SumOver(DOMAIN ebl, [lc \in DOMAIN ebl |-> Cardinality(DOMAIN ebl[lc])])
CountSenses(ebl) ==
    SumOver(DOMAIN ebl, [lc \in DOMAIN ebl |->
        SumOver(DOMAIN ebl[lc], [l \in DOMAIN ebl[lc] |-> Len(ebl[lc][l].senses)])])

\* the lexicon after the call, entries without a valid sense kept
PruneEmpty_KeepEntries(ebl) ==
    [lc \in DOMAIN ebl |-> [l \in DOMAIN ebl[lc] |->
        [ebl[lc][l] EXCEPT !.senses = SelectSeq(@, IsValidSense)]]]

\* the lexicon after the call: entry.senses filtered, entries left without a sense deleted
PruneEmpty(ebl) ==
    [lc \in DOMAIN ebl |->
        [l \in {m \in DOMAIN ebl[lc] : \E i \in DOMAIN ebl[lc][m].senses :
                                          IsValidSense(ebl[lc][m].senses[i])} |->
            [ebl[lc][l] EXCEPT !.senses = SelectSeq(@, IsValidSense)]]]

\* the lexicon after the call and the statistics it returns
removeEmptyEntriesAndSenses(ebl) ==
    LET after == PruneEmpty(ebl)
    IN  [entries |-> after,
         stats |-> [entriesRemoved |-> CountEntries(ebl) - CountEntries(after),
                    sensesRemoved |-> CountSenses(ebl) - CountSenses(after),
                    totalEntries |-> CountEntries(after),
                    totalSenses |-> CountSenses(after)]]

removeDuplicateOccurrences(ebl) ==
    [lc \in DOMAIN ebl |-> [l \in DOMAIN ebl[lc] |->
        [ebl[lc][l] EXCEPT !.senses = [i \in DOMAIN @ |->
            [@[i] EXCEPT !.occurrences = UniqueInOrder(@, <<>>)]]]]]

\* the test that guards the warning of removeDuplicateOccurrences: it is made after
\* sense.occurrences has been replaced by the unique references
WarnsOfDuplicates(occurrences) ==
    LET uniqueOccurrences == UniqueInOrder(occurrences, <<>>)
        reassigned == uniqueOccurrences
    IN  Len(uniqueOccurrences) # Len(reassigned)

\* the senses removeDuplicateOccurrences warns about: <<language, lemma, index>>
DuplicateOccurrenceWarnings(ebl) ==
    {w \in UNION {UNION {{<<lc, l, i>> : i \in DOMAIN ebl[lc][l].senses} :
                             l \in DOMAIN ebl[lc]} : lc \in DOMAIN ebl} :
        WarnsOfDuplicates(ebl[w[1]][w[2]].senses[w[3]].occurrences)}

cleanId(id) ==
    IF StartsWith(id, ENTRY_PREFIX)
    THEN Substring(id, Len(ENTRY_PREFIX), Len(ENTRY_PREFIX) + 6)
    ELSE IF StartsWith(id, SENSE_PREFIX)
    THEN Substring(id, Len(SENSE_PREFIX), Len(SENSE_PREFIX) + 15)
    ELSE id

RECURSIVE StringLess(_, _)
\* a < b as Array.prototype.sort orders strings: by code unit, a prefix first
StringLess(a, b) ==
    IF b = <<>> THEN FALSE
    ELSE IF a = <<>> THEN TRUE
    ELSE IF CharCode(a[1]) # CharCode(b[1]) THEN CharCode(a[1]) < CharCode(b[1])
    ELSE StringLess(Tail(a), Tail(b))

RECURSIVE SortedKeys(_)
\* Object.keys(entries).sort()
SortedKeys(keys) ==
    IF keys = {} THEN <<>>
    ELSE LET least == CHOOSE k \in keys : \A o \in keys \ {k} : StringLess(k, o)
         IN  <<least>> \o SortedKeys(keys \ {least})

\* the document written for one language
writeOutputFile(entries, language, dictType) ==
    LET sortedLemmas == SortedKeys(DOMAIN entries)
    IN  [Id |-> dictType, Language |-> language,
         Entries |-> [n \in DOMAIN sortedLemmas |->
            LET entryData == entries[sortedLemmas[n]]
            IN  [Id |-> cleanId(entryData.id), Lemma |-> sortedLemmas[n],
                 Senses |-> [i \in DOMAIN entryData.senses |->
                    [Id |-> cleanId(entryData.senses[i].id),
                     Definition |-> entryData.senses[i].definition,
                     Glosses |-> entryData.senses[i].glosses,
                     Occurrences |-> entryData.senses[i].occurrences,
                     Domains |-> entryData.senses[i].domains]]]]]

----------------------------------------------------------------------------
(* The converter as a state machine: main of convert-marble-lexicon.ts     *)

\* the comparison with the threshold itself counted as below it
LessThan_OrEqual(x, n) == ~x.nan /\ x.val <= n

\* x < n for a parsed number x: false for NaN
LessThan(x, n) == ~x.nan /\ x.val < n

\* the position of processFile in the source documents: which elements are open,
\* the loop indexes and the attributes read so far
NoWalk == [level |-> "file", lemma |-> <<>>, entryId |-> <<>>, entryVersion |-> Num(0),
           bfIdx |-> -1, baseFormId |-> <<>>, lmIdx |-> -1, lexMeaningId |-> <<>>,
           cmIdx |-> -1, cmElemIdx |-> -1, conMeaningId |-> <<>>, conOccurrences |-> <<>>,
           lexDomains |-> <<>>, lexCoreDomains |-> <<>>, conDomains |-> <<>>]

\* bounds of the source documents: structural elements of the lexicon files
\* (Lexicon_Entry, BaseForm, LEXMeaning, CONMeanings, ContextualMeaning), their
\* LEXSense and CONSense elements, and the MARBLELink elements
MaxElements == 6
MaxSenses == 2
MaxMarbleLinks == 1

\* The source directories of a run are drawn from one of three families: "ids" varies
\* the identifiers and the shape of the lexicon, "texts" the content of the senses,
\* "links" the references and the cross-reference files.
SourceFamilies == {"ids", "texts", "links"}

LemmaInputs(s) == IF s = "ids" THEN {<<"a">>, <<"b">>, <<>>} ELSE {<<"a">>}
\* two entry Ids longer than the six characters cleanId keeps of one, alike in
\* the first six
EntryId11 == <<"0", "0", "0", "0", "0", "1", "1">>
EntryId12 == <<"0", "0", "0", "0", "0", "1", "2">>
EntryIdInputs(s) == IF s = "ids" THEN {EntryId11, EntryId12, <<>>} ELSE {EntryId11}
VersionInputs(s) == IF s = "ids" THEN {<<>>, <<"4">>, <<"5">>} ELSE {<<"5">>}
BaseFormIdInputs(s) == IF s = "ids" THEN {<<"1">>, <<>>} ELSE {<<"1">>}
LexMeaningIdInputs(s) ==
    IF s = "ids" THEN {<<"1">>, <<"2">>, <<>>}
    ELSE IF s = "texts" THEN {<<"2">>} ELSE {<<"1">>}
BiblicalTermInputs(s) == IF s = "ids" THEN {<<>>, <<"x">>} ELSE {<<>>}
ConMeaningIdInputs(s) == IF s = "ids" THEN {<<"2">>, <<>>} ELSE {<<"2">>}
LanguageCodeInputs(s) == IF s = "texts" THEN {"en", "fr", ""} ELSE {"en", "fr"}
DefinitionInputs(s) ==
    IF s = "ids" THEN {"d1"} ELSE IF s = "texts" THEN {"", "d1", "d2"} ELSE {"", "d1"}
GlossesInputs(s) ==
    IF s = "ids" THEN {<<"g1">>}
    ELSE IF s = "texts" THEN {<<>>, <<"g1">>} ELSE {<<>>}

\* the domains extracted from a LEXMeaning (its LEXDomains and its LEXCoreDomains) and
\* from a ContextualMeaning (its CONDomains): every LEXMeaning has one domain of each
\* kind, and the "links" family has ContextualMeanings with and without a CONDomain,
\* whose code is the one of the core domain
LexicalDomain == [taxonomy |-> "Lexical", code |-> <<"1">>, value |-> "v1"]
CoreDomain == [taxonomy |-> "Contextual", code |-> <<"2">>, value |-> "v2"]
ContextualDomain == [taxonomy |-> "Contextual", code |-> <<"2">>, value |-> "v3"]
LexDomainsInputs(s) == {[lex |-> <<LexicalDomain>>, core |-> <<CoreDomain>>]}
ConDomainsInputs(s) ==
    IF s = "links" THEN {<<>>, <<ContextualDomain>>} ELSE {<<>>}

EvenId == <<"0", "0", "1", "0", "0", "1", "0", "0", "1", "0", "0", "0", "0", "2">>
EvenId2 == <<"0", "4", "0", "0", "0", "2", "0", "0", "3", "0", "0", "0", "0", "4">>
OddId == <<"0", "0", "1", "0", "0", "1", "0", "0", "1", "0", "0", "0", "0", "3">>
UnknownBookId == <<"9", "9", "9", "0", "0", "1", "0", "0", "1", "0", "0", "0", "0", "2">>
ShortId == <<"0", "0", "1", "0", "0", "1", "0", "0", "2">>
NotedId == <<" ">> \o EvenId \o <<"{", "N", ":", "0", "0", "1", "}">>

ReferenceTexts == {EvenId, EvenId2, OddId, UnknownBookId, ShortId, NotedId}
ReferenceTextLists(s) ==
    IF s # "links" THEN {<<>>}
    ELSE {<<>>} \cup {<<t>> : t \in ReferenceTexts} \cup {<<EvenId, t>> : t \in ReferenceTexts}

MarbleLinkIdInputs(s) ==
    IF s # "links" THEN {}
    ELSE {EvenId, OddId, UnknownBookId, ShortId, <<>>}

Zeros(n) == [i \in 1..n |-> "0"]
SenseIndexInputs == {Zeros(6), Zeros(5) \o <<"1">>, Zeros(9), Zeros(8) \o <<"1">>, Zeros(4)}
TagInputs == {DICTIONARY_TYPE_GREEK, <<"s", "d", "b", "h">>}
LinkTextFor(tag, lemma, senseIndex) ==
    tag \o <<":">> \o lemma \o <<":">> \o senseIndex \o <<":", "D">>
LinkTextInputs ==
    {LinkTextFor(tag, <<"a">>, si) : tag \in TagInputs, si \in SenseIndexInputs}
    \cup {LinkTextFor(tag, <<"b">>, Zeros(6)) : tag \in TagInputs}
    \cup {<<>>, <<" ">>, DICTIONARY_TYPE_GREEK \o <<":", "a">>,
          DICTIONARY_TYPE_HEBREW \o <<":", ":">> \o Zeros(6)}
FirstLinkTexts == {LinkTextFor(tag, <<"a">>, Zeros(6)) : tag \in TagInputs}
SecondLinkTexts ==
    FirstLinkTexts \cup {<<>>, LinkTextFor(DICTIONARY_TYPE_HEBREW, <<"a">>, Zeros(9))}
LinkTextLists(s) ==
    IF s # "links" THEN {}
    ELSE {<<>>} \cup {<<t>> : t \in LinkTextInputs}
         \cup {<<t, u>> : t \in FirstLinkTexts, u \in SecondLinkTexts}

InEntryLevels == {"entry", "baseForm", "lexMeaning", "conMeanings", "contextualMeaning"}
InBaseFormLevels == InEntryLevels \ {"entry"}
InLexMeaningLevels == InBaseFormLevels \ {"baseForm"}
InConMeaningsLevels == InLexMeaningLevels \ {"lexMeaning"}

NothingConsumed == [elements |-> 0, senses |-> 0, marbleLinks |-> 0]

ConvertInit ==
    /\ sources \in SourceFamilies
    /\ dictionaryType \in {DICTIONARY_TYPE_GREEK, DICTIONARY_TYPE_HEBREW}
    /\ stage = "lexicon"
    /\ walk = NoWalk
    /\ consumed = NothingConsumed
    /\ entriesByLanguage = EmptyMap
    /\ linksFile = NewLinksFile
    /\ linksResult = NoLinks
    /\ linkTotals = NoLinks
    /\ removalStats = [entriesRemoved |-> 0, sensesRemoved |-> 0,
                       totalEntries |-> 0, totalSenses |-> 0]
    /\ output = EmptyMap
    /\ warnings = {}
    /\ extracted = EmptyMap
    /\ HelpersIdle
    /\ LoadIdle
    /\ DomainsIdle
    /\ TaxonomyIdle

\* processFile, outer loop: the next Lexicon_Entry element of the lexicon files
NextLexiconEntry(lemma, entryId, version) ==
    /\ stage = "lexicon"
    /\ consumed.elements < MaxElements /\ consumed.senses < MaxSenses
    /\ LET entryVersion == ParseInt(IF version = <<>> THEN <<"0">> ELSE version)
           skipped == \/ lemma = <<>> \/ entryId = <<>>
                      \/ (dictionaryType # DICTIONARY_TYPE_GREEK
                          /\ LessThan(entryVersion, MIN_LEXICAL))
       IN  walk' = IF skipped THEN NoWalk
                   ELSE [NoWalk EXCEPT !.level = "entry", !.lemma = lemma,
                                       !.entryId = entryId, !.entryVersion = entryVersion]
    /\ consumed' = [consumed EXCEPT !.elements = @ + 1]
    /\ UNCHANGED <<sources, dictionaryType, stage, entriesByLanguage, linkVars, removalStats, output,
                   warnings, extracted, helperVars, loadVars, domainVars, taxonomyVars>>

\* the next BaseForm element of the entry
NextBaseForm(baseFormId) ==
    /\ stage = "lexicon"
    /\ walk.level \in InEntryLevels
    /\ consumed.elements < MaxElements /\ consumed.senses < MaxSenses
    /\ consumed' = [consumed EXCEPT !.elements = @ + 1]
    /\ walk' = [walk EXCEPT !.level = IF baseFormId = <<>> THEN "entry" ELSE "baseForm",
                            !.bfIdx = @ + 1, !.baseFormId = baseFormId,
                            !.lmIdx = -1, !.lexMeaningId = <<>>,
                            !.lexDomains = <<>>, !.lexCoreDomains = <<>>,
                            !.cmIdx = -1, !.cmElemIdx = -1,
                            !.conMeaningId = <<>>, !.conOccurrences = <<>>, !.conDomains = <<>>]
    /\ UNCHANGED <<sources, dictionaryType, stage, entriesByLanguage, linkVars,
                   removalStats, output, warnings, extracted, helperVars, loadVars, domainVars, taxonomyVars>>

\* the next LEXMeaning element of the base form
NextLexMeaning(lexMeaningId, isBiblicalTerm, domains) ==
    /\ stage = "lexicon"
    /\ walk.level \in InBaseFormLevels
    /\ consumed.elements < MaxElements /\ consumed.senses < MaxSenses
    /\ consumed' = [consumed EXCEPT !.elements = @ + 1]
    /\ LET skipped == \/ (dictionaryType = DICTIONARY_TYPE_HEBREW
                          /\ ToUpperCase(isBiblicalTerm) \in {<<"X">>, <<"N">>})
                      \/ lexMeaningId = <<>>
       IN  walk' = [walk EXCEPT !.level = IF skipped THEN "baseForm" ELSE "lexMeaning",
                                !.lmIdx = @ + 1,
                                !.lexMeaningId = IF skipped THEN <<>> ELSE lexMeaningId,
                                !.lexDomains = IF skipped THEN <<>> ELSE domains.lex,
                                !.lexCoreDomains = IF skipped THEN <<>> ELSE domains.core,
                                !.cmIdx = -1, !.cmElemIdx = -1,
                                !.conMeaningId = <<>>, !.conOccurrences = <<>>, !.conDomains = <<>>]
    /\ UNCHANGED <<sources, dictionaryType, stage, entriesByLanguage, linkVars,
                   removalStats, output, warnings, extracted, helperVars, loadVars, domainVars, taxonomyVars>>

\* the next LEXSense element of the lexical meaning
NextLexSense(languageCode, definition, glosses) ==
    /\ stage = "lexicon"
    /\ walk.level = "lexMeaning"
    /\ consumed.senses < MaxSenses
    /\ consumed' = [consumed EXCEPT !.senses = @ + 1]
    /\ entriesByLanguage' =
          IF languageCode = "" THEN entriesByLanguage
          ELSE PushSense(entriesByLanguage, languageCode, walk.lemma, walk.entryId,
                   [id |-> LexSenseId(walk.entryId, walk.baseFormId, walk.lexMeaningId),
                    baseFormIndex |-> walk.bfIdx, lexIndex |-> walk.lmIdx,
                    conIndex |-> NoConIndex,
                    definition |-> definition, glosses |-> glosses,
                    occurrences |-> <<>>,
                    domains |-> combineDomains(walk.lexDomains, walk.lexCoreDomains)])
    /\ UNCHANGED <<sources, dictionaryType, stage, walk, linkVars, removalStats, output, warnings, extracted, helperVars, loadVars, domainVars, taxonomyVars>>

\* the next CONMeanings element of the lexical meaning, after its LEXSense elements
NextConMeanings ==
    /\ stage = "lexicon"
    /\ walk.level \in InLexMeaningLevels
    /\ ~(dictionaryType # DICTIONARY_TYPE_GREEK
         /\ LessThan(walk.entryVersion, MIN_CONTEXTUAL))
    /\ consumed.elements < MaxElements /\ consumed.senses < MaxSenses
    /\ consumed' = [consumed EXCEPT !.elements = @ + 1]
    /\ walk' = [walk EXCEPT !.level = "conMeanings", !.cmIdx = @ + 1, !.cmElemIdx = -1,
                            !.conMeaningId = <<>>, !.conOccurrences = <<>>, !.conDomains = <<>>]
    /\ UNCHANGED <<sources, dictionaryType, stage, entriesByLanguage, linkVars,
                   removalStats, output, warnings, extracted, helperVars, loadVars, domainVars, taxonomyVars>>

\* the next ContextualMeaning element of the container, with its CONReference texts
NextContextualMeaning(conMeaningId, referenceTexts, conDomains) ==
    /\ stage = "lexicon"
    /\ walk.level \in InConMeaningsLevels
    /\ consumed.elements < MaxElements /\ consumed.senses < MaxSenses
    /\ consumed' = [consumed EXCEPT !.elements = @ + 1]
    /\ walk' = IF conMeaningId = <<>>
               THEN [walk EXCEPT !.level = "conMeanings", !.cmElemIdx = @ + 1,
                                 !.conMeaningId = <<>>, !.conOccurrences = <<>>, !.conDomains = <<>>]
               ELSE [walk EXCEPT !.level = "contextualMeaning", !.cmElemIdx = @ + 1,
                                 !.conMeaningId = conMeaningId,
                                 !.conOccurrences = extractCONReferences(referenceTexts),
                                 !.conDomains = conDomains]
    /\ UNCHANGED <<sources, dictionaryType, stage, entriesByLanguage, linkVars,
                   removalStats, output, warnings, extracted, helperVars, loadVars, domainVars, taxonomyVars>>

\* the next CONSense element of the contextual meaning
NextConSense(languageCode, definition, glosses) ==
    /\ stage = "lexicon"
    /\ walk.level = "contextualMeaning"
    /\ consumed.senses < MaxSenses
    /\ consumed' = [consumed EXCEPT !.senses = @ + 1]
    /\ entriesByLanguage' =
          IF languageCode = "" THEN entriesByLanguage
          ELSE PushSense(entriesByLanguage, languageCode, walk.lemma, walk.entryId,
                   [id |-> ConSenseId(walk.entryId, walk.baseFormId, walk.lexMeaningId,
                                      walk.conMeaningId),
                    baseFormIndex |-> walk.bfIdx, lexIndex |-> walk.lmIdx,
                    conIndex |-> ConIndexOf(walk.cmIdx),
                    definition |-> definition, glosses |-> glosses,
                    occurrences |-> walk.conOccurrences,
                    domains |-> combineDomains(walk.conDomains, walk.lexCoreDomains)])
    /\ UNCHANGED <<sources, dictionaryType, stage, walk, linkVars, removalStats, output, warnings, extracted, helperVars, loadVars, domainVars, taxonomyVars>>

\* processLexiconFiles returning without the call of verifyAndRemoveDuplicateSenses
FinishLexiconFiles_NoVerify ==
    /\ stage = "lexicon"
    /\ stage' = "links"
    /\ extracted' = entriesByLanguage
    /\ walk' = NoWalk
    /\ consumed' = NothingConsumed
    /\ UNCHANGED <<sources, dictionaryType, entriesByLanguage, linkVars, removalStats, output,
                   warnings, helperVars, loadVars, domainVars, taxonomyVars>>

\* processLexiconFiles with the exception of verifyAndRemoveDuplicateSenses caught
FinishLexiconFiles_Caught ==
    /\ stage = "lexicon"
    /\ entriesByLanguage' = verifyAndRemoveDuplicateSenses(entriesByLanguage).entries
    /\ stage' = "links"
    /\ extracted' = entriesByLanguage
    /\ walk' = NoWalk
    /\ consumed' = NothingConsumed
    /\ UNCHANGED <<sources, dictionaryType, linkVars, removalStats, output, warnings,
                   helperVars, loadVars, domainVars, taxonomyVars>>

\* processLexiconFiles after its last file: verifyAndRemoveDuplicateSenses, whose
\* exception ends main
FinishLexiconFiles ==
    /\ stage = "lexicon"
    /\ LET r == verifyAndRemoveDuplicateSenses(entriesByLanguage)
       IN  /\ entriesByLanguage' = r.entries
           /\ stage' = IF r.threw THEN "aborted" ELSE "links"
    /\ extracted' = entriesByLanguage
    /\ walk' = NoWalk
    /\ consumed' = NothingConsumed
    /\ UNCHANGED <<sources, dictionaryType, linkVars, removalStats, output, warnings,
                   helperVars, loadVars, domainVars, taxonomyVars>>

\* processMarbleLinksFile, first loop: the next MARBLELink element of the file
NextMarbleLink(marbleLinkId, texts) ==
    /\ stage = "links"
    /\ linksFile.collecting
    /\ consumed.marbleLinks < MaxMarbleLinks
    /\ consumed' = [consumed EXCEPT !.marbleLinks = @ + 1]
    /\ linksFile' = CollectMarbleLink(marbleLinkId, texts, dictionaryType, linksFile)
    /\ UNCHANGED <<sources, dictionaryType, stage, walk, entriesByLanguage, linksResult, linkTotals,
                   removalStats, output, warnings, extracted, helperVars, loadVars, domainVars, taxonomyVars>>

\* processMarbleLinksFile, second loop: the next queued link
ProcessQueuedLink ==
    /\ stage = "links"
    /\ linksFile.linksToProcess # <<>>
    /\ LET link == Head(linksFile.linksToProcess)
           r == processLexicalLink(link.linkText, link.reference, entriesByLanguage,
                                   dictionaryType)
       IN  /\ entriesByLanguage' = r.entries
           /\ linksFile' = [linksFile EXCEPT
                  !.collecting = FALSE,
                  !.linksToProcess = Tail(@),
                  !.links.processedLinks = IF r.updatedAny THEN @ + 1 ELSE @,
                  !.links.badLinks = IF r.updatedAny THEN @ ELSE @ + 1]
    /\ UNCHANGED <<sources, dictionaryType, stage, walk, consumed, linksResult, linkTotals,
                   removalStats, output, warnings, extracted, helperVars, loadVars, domainVars, taxonomyVars>>

\* processMarbleLinksFile returns and processMarbleLinksFiles adds the result up
ReturnLinksFile ==
    /\ stage = "links"
    /\ linksFile.linksToProcess = <<>>
    /\ linksFile # NewLinksFile
    /\ linksResult' = linksFile.links
    /\ linkTotals' = AddLinks(linkTotals, linksFile.links)
    /\ linksFile' = NewLinksFile
    /\ UNCHANGED <<sources, dictionaryType, stage, walk, consumed, entriesByLanguage,
                   removalStats, output, warnings, extracted, helperVars, loadVars, domainVars, taxonomyVars>>

\* processMarbleLinksFiles after its last file
FinishLinksFiles ==
    /\ stage = "links"
    /\ linksFile = NewLinksFile
    /\ stage' = "prune"
    /\ UNCHANGED <<sources, dictionaryType, walk, consumed, entriesByLanguage, linkVars,
                   removalStats, output, warnings, extracted, helperVars, loadVars, domainVars, taxonomyVars>>

RemoveEmptyEntriesAndSenses ==
    /\ stage = "prune"
    /\ LET r == removeEmptyEntriesAndSenses(entriesByLanguage)
       IN  /\ entriesByLanguage' = r.entries
           /\ removalStats' = r.stats
    /\ stage' = "dedupe"
    /\ UNCHANGED <<sources, dictionaryType, walk, consumed, linkVars, output, warnings, extracted, helperVars, loadVars, domainVars, taxonomyVars>>

RemoveDuplicateOccurrences ==
    /\ stage = "dedupe"
    /\ entriesByLanguage' = removeDuplicateOccurrences(entriesByLanguage)
    /\ warnings' = DuplicateOccurrenceWarnings(entriesByLanguage)
    /\ stage' = "write"
    /\ UNCHANGED <<sources, dictionaryType, walk, consumed, linkVars, removalStats, output,
                   extracted, helperVars, loadVars, domainVars, taxonomyVars>>

\* main's last loop: one output file per language
WriteOutputFiles ==
    /\ stage = "write"
    /\ output' = [language \in DOMAIN entriesByLanguage |->
                     writeOutputFile(entriesByLanguage[language], language, dictionaryType)]
    /\ stage' = "done"
    /\ UNCHANGED <<sources, dictionaryType, walk, consumed, entriesByLanguage, linkVars,
                   removalStats, warnings, extracted, helperVars, loadVars, domainVars, taxonomyVars>>

ConvertNext ==
    \/ \E lemma \in LemmaInputs(sources), entryId \in EntryIdInputs(sources),
          version \in VersionInputs(sources) : NextLexiconEntry(lemma, entryId, version)
    \/ \E baseFormId \in BaseFormIdInputs(sources) : NextBaseForm(baseFormId)
    \/ \E lexMeaningId \in LexMeaningIdInputs(sources),
          isBiblicalTerm \in BiblicalTermInputs(sources),
          domains \in LexDomainsInputs(sources) :
          NextLexMeaning(lexMeaningId, isBiblicalTerm, domains)
    \/ \E languageCode \in LanguageCodeInputs(sources),
          definition \in DefinitionInputs(sources), glosses \in GlossesInputs(sources) :
          NextLexSense(languageCode, definition, glosses)
    \/ NextConMeanings
    \/ \E conMeaningId \in ConMeaningIdInputs(sources),
          referenceTexts \in ReferenceTextLists(sources),
          conDomains \in ConDomainsInputs(sources) :
          NextContextualMeaning(conMeaningId, referenceTexts, conDomains)
    \/ \E languageCode \in LanguageCodeInputs(sources),
          definition \in DefinitionInputs(sources), glosses \in GlossesInputs(sources) :
          NextConSense(languageCode, definition, glosses)
    \/ FinishLexiconFiles
    \/ \E marbleLinkId \in MarbleLinkIdInputs(sources), texts \in LinkTextLists(sources) :
          NextMarbleLink(marbleLinkId, texts)
    \/ ProcessQueuedLink
    \/ ReturnLinksFile
    \/ FinishLinksFiles
    \/ RemoveEmptyEntriesAndSenses
    \/ RemoveDuplicateOccurrences
    \/ WriteOutputFiles

SpecConvert == ConvertInit /\ [][ConvertNext]_vars

----------------------------------------------------------------------------
(* Claims about the converter                                              *)

AfterVerify == {"links", "prune", "dedupe", "write", "done"}
AfterPrune == {"dedupe", "write", "done"}

EntryIdsOf(entries) == {entries[l].id : l \in DOMAIN entries}
SenseIdsOf(entries) ==
    {entries[p[1]].senses[p[2]].id : p \in SensePositions(entries)}

DistinctIds(entries) ==
    /\ \A l1, l2 \in DOMAIN entries : l1 # l2 => entries[l1].id # entries[l2].id
    /\ \A p, q \in SensePositions(entries) :
          p # q => entries[p[1]].senses[p[2]].id # entries[q[1]].senses[q[2]].id

\* between the return of verifyAndRemoveDuplicateSenses and the end of main no step
\* adds a language, an entry or a sense, or changes an id
IdsKept ==
    stage \in AfterVerify =>
        /\ DOMAIN entriesByLanguage' \subseteq DOMAIN entriesByLanguage
        /\ \A lc \in DOMAIN entriesByLanguage' :
              /\ DOMAIN entriesByLanguage'[lc] \subseteq DOMAIN entriesByLanguage[lc]
              /\ \A l \in DOMAIN entriesByLanguage'[lc] :
                    /\ entriesByLanguage'[lc][l].id = entriesByLanguage[lc][l].id
                    /\ Len(entriesByLanguage'[lc][l].senses)
                          <= Len(entriesByLanguage[lc][l].senses)
              /\ SenseIdsOf(entriesByLanguage'[lc]) \subseteq SenseIdsOf(entriesByLanguage[lc])

\* C4: once verifyAndRemoveDuplicateSenses has returned normally, in every language
\* the entry ids are pairwise distinct and the sense ids are pairwise distinct across
\* all entries, up to and including the structure written; linking, pruning and
\* occurrence deduplication change no id and add no entry or sense.
C4_DistinctIds ==
    /\ [](stage \in AfterVerify =>
             \A lc \in DOMAIN entriesByLanguage : DistinctIds(entriesByLanguage[lc]))
    /\ [][IdsKept]_vars

\* written: a language with two entries, one of them with two senses
C4_Witness ==
    /\ stage = "done"
    /\ \E lc \in DOMAIN entriesByLanguage :
          /\ Cardinality(DOMAIN entriesByLanguage[lc]) = 2
          /\ Cardinality(SensePositions(entriesByLanguage[lc])) = 2

NotEmptySense(sense) == ~(sense.definition = "" /\ sense.glosses = <<>>)

NoEmptySenseOrEntry(ebl) ==
    \A lc \in DOMAIN ebl : \A l \in DOMAIN ebl[lc] :
        /\ Len(ebl[lc][l].senses) > 0
        /\ \A i \in DOMAIN ebl[lc][l].senses : NotEmptySense(ebl[lc][l].senses[i])

\* the step from "prune" removes the empty senses, then the entries left without a
\* sense, and nothing else
PrunedExactly ==
    stage = "prune" =>
        /\ DOMAIN entriesByLanguage' = DOMAIN entriesByLanguage
        /\ \A lc \in DOMAIN entriesByLanguage :
              /\ DOMAIN entriesByLanguage'[lc] =
                    {l \in DOMAIN entriesByLanguage[lc] :
                        \E i \in DOMAIN entriesByLanguage[lc][l].senses :
                            NotEmptySense(entriesByLanguage[lc][l].senses[i])}
              /\ \A l \in DOMAIN entriesByLanguage'[lc] :
                    entriesByLanguage'[lc][l] =
                        [entriesByLanguage[lc][l] EXCEPT
                            !.senses = SelectSeq(@, NotEmptySense)]

\* C5: from the return of removeEmptyEntriesAndSenses to the writing of the output no
\* sense has both an empty definition and an empty gloss list and no entry has zero
\* senses; removeEmptyEntriesAndSenses removes exactly those senses and entries.
C5_NoEmptySenseOrEntry ==
    /\ [](stage \in AfterPrune => NoEmptySenseOrEntry(entriesByLanguage))
    /\ [][PrunedExactly]_vars

\* written after senses and entries were removed and others kept
C5_Witness ==
    /\ stage = "done"
    /\ removalStats.sensesRemoved > 0
    /\ removalStats.entriesRemoved > 0
    /\ removalStats.totalSenses > 0

\* 'BOOK CHAPTER:VERSE!WORD': a book of bookMap, then three runs of digits
CanonicalReference(occ) ==
    /\ Len(occ) > 4
    /\ SubSeq(occ, 1, 3) \in Range(bookMap)
    /\ occ[4] = " "
    /\ LET rest == Split(SubSeq(occ, 5, Len(occ)), ":")
       IN  /\ Len(rest) = 2
           /\ IsNumeric(rest[1])
           /\ LET verseWord == Split(rest[2], "!")
              IN  Len(verseWord) = 2 /\ IsNumeric(verseWord[1]) /\ IsNumeric(verseWord[2])

\* C6: every occurrence attached to a sense, from a CONReference or from a MARBLELink,
\* has the canonical form with a known book and integer chapter, verse and word, and
\* parseU23003Reference accepts it: none comes from an odd, a non-14-digit or an
\* unknown-book identifier.
C6_CanonicalOccurrences ==
    \A lc \in DOMAIN entriesByLanguage : \A p \in SensePositions(entriesByLanguage[lc]) :
        \A occ \in Range(entriesByLanguage[lc][p[1]].senses[p[2]].occurrences) :
            CanonicalReference(occ) /\ parseU23003Reference(occ) # Null

\* a contextual sense holding the occurrence of its own CONReference and, after it,
\* one added by the linker
C6_Witness ==
    /\ stage = "done"
    /\ \E lc \in DOMAIN entriesByLanguage : \E p \in SensePositions(entriesByLanguage[lc]) :
          LET sense == entriesByLanguage[lc][p[1]].senses[p[2]]
          IN  /\ sense.conIndex.defined
              /\ sense.occurrences =
                    <<marbleLinkIdToU23003(EvenId2), marbleLinkIdToU23003(EvenId)>>

Classified(links) ==
    links.badLinks + links.oddNumberLinks + links.dictionaryMismatchLinks
        + links.processedLinks

\* the second loop takes one queued link: bad when no sense received the occurrence,
\* processed when one did
QueuedLinkCounted ==
    (stage = "links" /\ linksFile'.linksToProcess # linksFile.linksToProcess
         /\ linksFile.linksToProcess # <<>>
         /\ linksFile'.linksToProcess = Tail(linksFile.linksToProcess)) =>
        IF entriesByLanguage' = entriesByLanguage
        THEN /\ linksFile'.links.badLinks = linksFile.links.badLinks + 1
             /\ linksFile'.links.processedLinks = linksFile.links.processedLinks
        ELSE /\ linksFile'.links.processedLinks = linksFile.links.processedLinks + 1
             /\ linksFile'.links.badLinks = linksFile.links.badLinks

\* C7: every cross-reference file returns totalLinks = badLinks + oddNumberLinks +
\* dictionaryMismatchLinks + processedLinks; while it runs the only links counted and
\* not yet classified are those still queued; a queued link that matches no sense adds
\* to badLinks and not to processedLinks.
C7_LinkAccounting ==
    /\ [](stage \in AfterVerify =>
             /\ linksResult.totalLinks = Classified(linksResult)
             /\ linkTotals.totalLinks = Classified(linkTotals)
             /\ linksFile.links.totalLinks =
                   Classified(linksFile.links) + Len(linksFile.linksToProcess))
    /\ [][QueuedLinkCounted]_vars

\* the second loop has run on the one link of the file, queued with a matching tag,
\* and no sense of the lexicon matched it
C7_Witness ==
    /\ stage = "links"
    /\ entriesByLanguage # EmptyMap
    /\ ~linksFile.collecting
    /\ linksFile.linksToProcess = <<>>
    /\ linksFile.links = [totalLinks |-> 1, badLinks |-> 1, oddNumberLinks |-> 0,
                          dictionaryMismatchLinks |-> 0, processedLinks |-> 0]

\* a step of processFile that pushes the sense of a CONSense element
ConSensePushed ==
    /\ stage = "lexicon" /\ stage' = "lexicon"
    /\ walk.level = "contextualMeaning"
    /\ entriesByLanguage' # entriesByLanguage

\* the sense a step of processFile has pushed: the last one of the entry of the
\* lemma in the language whose entries changed
PushedSenses ==
    {entriesByLanguage'[lc][walk.lemma].senses[Len(entriesByLanguage'[lc][walk.lemma].senses)] :
        lc \in {x \in DOMAIN entriesByLanguage' :
                   x \notin DOMAIN entriesByLanguage
                   \/ entriesByLanguage'[x] # entriesByLanguage[x]}}

\* C13: a contextual Sense carries as contextual index the zero-based position of its
\* contextual meaning among the contextual meanings of its lexical meaning: in the
\* first CONMeanings container that is the index of the ContextualMeaning element,
\* in a later container it is at least that index.
C13_ContextualPosition ==
    [][ConSensePushed =>
          \A sense \in PushedSenses :
              /\ sense.conIndex.defined
              /\ sense.conIndex.val >= walk.cmElemIdx
              /\ walk.cmIdx = 0 => sense.conIndex.val = walk.cmElemIdx]_vars

\* the second loop of processMarbleLinksFile takes the link at the head of the queue
LinkStep ==
    /\ stage = "links"
    /\ linksFile.linksToProcess # <<>>
    /\ linksFile'.linksToProcess = Tail(linksFile.linksToProcess)

\* the parts of the link at the head of the queue
QueuedParts == Split(Head(linksFile.linksToProcess).linkText, ":")

\* the senses whose occurrences a step has changed: <<language, lemma, index>>
SensesTouched ==
    {t \in UNION {UNION {{<<lc, l, i>> : i \in DOMAIN entriesByLanguage[lc][l].senses} :
                            l \in DOMAIN entriesByLanguage[lc]} :
                     lc \in DOMAIN entriesByLanguage} :
        entriesByLanguage'[t[1]][t[2]].senses[t[3]].occurrences
            # entriesByLanguage[t[1]][t[2]].senses[t[3]].occurrences}

\* the positional index of a sense is exactly the one a sense index names: six digits
\* name a sense without contextual index, nine digits one with all three equal
ExactMatch(sense, senseIndex) ==
    /\ Num(sense.baseFormIndex) = ParseInt(Substring(senseIndex, 0, 3))
    /\ Num(sense.lexIndex) = ParseInt(Substring(senseIndex, 3, 6))
    /\ IF Len(senseIndex) = 6 THEN ~sense.conIndex.defined
       ELSE /\ Len(senseIndex) = 9
            /\ sense.conIndex.defined
            /\ Num(sense.conIndex.val) = ParseInt(Substring(senseIndex, 6, 9))

\* C14: the linker matches positional indices exactly: a 6-digit link appends its
\* reference only to a sense without contextual index, a 9-digit link only to a sense
\* whose three indices equal the link's; a link never attaches to a sense of the other
\* kind.
C14_ExactPositionalMatch ==
    [][LinkStep =>
          \A t \in SensesTouched :
              ExactMatch(entriesByLanguage[t[1]][t[2]].senses[t[3]], QueuedParts[3])]_vars

\* the link at the head of the queue is well formed and carries the current tag
WellFormedLink ==
    /\ Len(QueuedParts) >= 3
    /\ ToUpperCase(QueuedParts[1]) = dictionaryType
    /\ QueuedParts[2] # <<>>
    /\ Len(QueuedParts[3]) \in {6, 9}

\* a sense matches a link as the linker takes it: equal base-form and
\* lexical-meaning indices, and for nine digits an equal contextual index
LinkMatch(sense, senseIndex) ==
    /\ Num(sense.baseFormIndex) = ParseInt(Substring(senseIndex, 0, 3))
    /\ Num(sense.lexIndex) = ParseInt(Substring(senseIndex, 3, 6))
    /\ Len(senseIndex) = 9 =>
          /\ sense.conIndex.defined
          /\ Num(sense.conIndex.val) = ParseInt(Substring(senseIndex, 6, 9))

\* the matching senses of the entry of the link's lemma in a language
MatchingSenses(lc) ==
    IF QueuedParts[2] \in DOMAIN entriesByLanguage[lc]
    THEN {i \in DOMAIN entriesByLanguage[lc][QueuedParts[2]].senses :
             LinkMatch(entriesByLanguage[lc][QueuedParts[2]].senses[i], QueuedParts[3])}
    ELSE {}

\* the entries of a language after the reference was appended to the first of the
\* matching senses, unchanged when there is none
FannedOut(lc) ==
    IF MatchingSenses(lc) = {} THEN entriesByLanguage[lc]
    ELSE LET first == CHOOSE i \in MatchingSenses(lc) : \A j \in MatchingSenses(lc) : i <= j
         IN  [entriesByLanguage[lc] EXCEPT ![QueuedParts[2]].senses[first].occurrences =
                 Append(@, Head(linksFile.linksToProcess).reference)]

\* C15: a well-formed link with the current dictionary tag appends its reference to
\* exactly one sense, the first matching one, in each language whose entry for the
\* lemma holds a matching sense, changes nothing in the other languages, and is
\* counted as processed if and only if some language was updated (as bad otherwise).
\* A sense matches as LinkMatch says.
C15_FanOut ==
    [][(LinkStep /\ WellFormedLink) =>
          /\ DOMAIN entriesByLanguage' = DOMAIN entriesByLanguage
          /\ \A lc \in DOMAIN entriesByLanguage : entriesByLanguage'[lc] = FannedOut(lc)
          /\ IF \E lc \in DOMAIN entriesByLanguage : MatchingSenses(lc) # {}
             THEN /\ linksFile'.links.processedLinks = linksFile.links.processedLinks + 1
                  /\ linksFile'.links.badLinks = linksFile.links.badLinks
             ELSE /\ linksFile'.links.processedLinks = linksFile.links.processedLinks
                  /\ linksFile'.links.badLinks = linksFile.links.badLinks + 1]_vars

\* a link has been appended to the first of two matching senses of one language and
\* to the matching sense of another language
C15_Witness ==
    /\ stage = "links"
    /\ linksFile.links.processedLinks = 1
    /\ \E lc1, lc2 \in DOMAIN entriesByLanguage :
          /\ lc1 # lc2
          /\ <<"a">> \in DOMAIN entriesByLanguage[lc1]
          /\ <<"a">> \in DOMAIN entriesByLanguage[lc2]
          /\ Len(entriesByLanguage[lc1][<<"a">>].senses[1].occurrences) = 1
          /\ Len(entriesByLanguage[lc2][<<"a">>].senses[1].occurrences) = 1

\* the sense ids of an entry in the order of its senses
SenseIdsInOrder(entry) == [i \in DOMAIN entry.senses |-> entry.senses[i].id]

\* the condensed sense ids of an entry, one of each, in order of first appearance
CondensedIdsInOrder(entry) ==
    UniqueInOrder([i \in DOMAIN entry.senses |-> condenseSenseId(entry.senses[i].id)], <<>>)

\* some sense of the extracted lexicon matches the link at the head of the queue
MatchesExtracted ==
    \E lc \in DOMAIN extracted :
        /\ QueuedParts[2] \in DOMAIN extracted[lc]
        /\ \E i \in DOMAIN extracted[lc][QueuedParts[2]].senses :
              LinkMatch(extracted[lc][QueuedParts[2]].senses[i], QueuedParts[3])

\* the link at the head of the queue is counted as unresolved
CountedBad == linksFile'.links.badLinks = linksFile.links.badLinks + 1

\* C16 as stated: the linker runs on the lexicon as the extractor left it, before ids
\* are condensed and duplicate senses merged, so a link is never unresolved because
\* the sense it names was merged away.
C16_DedupAfterLinker ==
    [][LinkStep =>
          /\ DOMAIN entriesByLanguage = DOMAIN extracted
          /\ \A lc \in DOMAIN entriesByLanguage :
                /\ DOMAIN entriesByLanguage[lc] = DOMAIN extracted[lc]
                /\ \A l \in DOMAIN entriesByLanguage[lc] :
                      SenseIdsInOrder(entriesByLanguage[lc][l])
                          = SenseIdsInOrder(extracted[lc][l])
          /\ (WellFormedLink /\ CountedBad) => ~MatchesExtracted]_vars

StageOrder ==
    {<<"lexicon", "links">>, <<"lexicon", "aborted">>, <<"links", "prune">>,
     <<"prune", "dedupe">>, <<"dedupe", "write">>, <<"write", "done">>}

\* C16, amended: main runs the extractor, then at the end of processLexiconFiles
\* condenses the sense ids, merges duplicate senses and checks uniqueness, then runs
\* the linker, then prunes, removes duplicate occurrences and writes.  No link is
\* counted before the merge; the linker works on the merged lexicon (one sense per
\* condensed id, in order of first appearance); a link that only a merged-away sense
\* matches is counted as unresolved.
C16_VerifyBeforeLinker ==
    /\ [][stage' # stage => <<stage, stage'>> \in StageOrder]_vars
    /\ [](stage = "lexicon" =>
             /\ linkTotals = NoLinks
             /\ linksFile = NewLinksFile
             /\ extracted = EmptyMap)
    /\ [][LinkStep =>
             /\ DOMAIN entriesByLanguage = DOMAIN extracted
             /\ \A lc \in DOMAIN entriesByLanguage :
                   /\ DOMAIN entriesByLanguage[lc] = DOMAIN extracted[lc]
                   /\ \A l \in DOMAIN entriesByLanguage[lc] :
                         SenseIdsInOrder(entriesByLanguage[lc][l])
                             = CondensedIdsInOrder(extracted[lc][l])
             /\ (/\ WellFormedLink
                 /\ MatchesExtracted
                 /\ \A lc \in DOMAIN entriesByLanguage : MatchingSenses(lc) = {})
                    => CountedBad]_vars

\* the linker is about to take a link that matched a sense of the extracted lexicon
\* and matches none of the merged one
C16_Witness ==
    /\ stage = "links"
    /\ linksFile.linksToProcess # <<>>
    /\ WellFormedLink
    /\ MatchesExtracted
    /\ \A lc \in DOMAIN entriesByLanguage : MatchingSenses(lc) = {}

\* the step that ends processLexiconFiles: the call of verifyAndRemoveDuplicateSenses
VerifyStep == stage = "lexicon" /\ stage' # "lexicon"

\* the senses of an entry, before the call, whose condensed id is this one
SensesWithId(before, id) == {i \in DOMAIN before : condenseSenseId(before[i].id) = id}

Earliest(positions) == CHOOSE i \in positions : \A j \in positions : i <= j
Latest(positions) == CHOOSE i \in positions : \A j \in positions : j <= i

\* a sense without the fields the merge may change
WithoutContent(sense) == [sense EXCEPT !.id = <<>>, !.definition = "", !.glosses = <<>>]

\* the survivor of one condensed id, against the senses that carried the id before
SurvivorAsClaimed(before, survivor) ==
    LET colliding == SensesWithId(before, survivor.id)
        first == before[Earliest(colliding)]
        later == before[Latest(colliding)]
    IN  /\ colliding # {}
        /\ WithoutContent(survivor) = WithoutContent(first)
        /\ Cardinality(colliding) = 1 =>
              survivor.definition = first.definition /\ survivor.glosses = first.glosses
        /\ (Cardinality(colliding) = 2 /\ IsValidSense(first) /\ ~IsValidSense(later)) =>
              survivor.definition = first.definition /\ survivor.glosses = first.glosses
        /\ (Cardinality(colliding) = 2 /\ ~IsValidSense(first) /\ IsValidSense(later)) =>
              survivor.definition = later.definition /\ survivor.glosses = later.glosses
        /\ (/\ Cardinality(colliding) = 2
            /\ \/ first.definition # "" /\ later.definition # ""
               \/ Len(first.glosses) > 0 /\ Len(later.glosses) > 0) =>
              survivor.definition = first.definition /\ survivor.glosses = first.glosses

\* C17: after the merge every entry holds one sense per condensed id, in the order in
\* which the ids first appeared; the survivor is the earliest sense with the id (its
\* indices and occurrences).  Of a colliding pair where one sense has content and the
\* other has none, the survivor has the definition and glosses of the one with
\* content; where both have a definition or both have glosses, the survivor has the
\* content of the earlier one.
C17_MergedSenses ==
    [][VerifyStep =>
          /\ DOMAIN entriesByLanguage' = DOMAIN entriesByLanguage
          /\ \A lc \in DOMAIN entriesByLanguage :
                /\ DOMAIN entriesByLanguage'[lc] = DOMAIN entriesByLanguage[lc]
                /\ \A l \in DOMAIN entriesByLanguage[lc] :
                      /\ SenseIdsInOrder(entriesByLanguage'[lc][l])
                             = CondensedIdsInOrder(entriesByLanguage[lc][l])
                      /\ \A p, q \in DOMAIN entriesByLanguage'[lc][l].senses :
                            p # q => entriesByLanguage'[lc][l].senses[p].id
                                         # entriesByLanguage'[lc][l].senses[q].id
                      /\ \A k \in DOMAIN entriesByLanguage'[lc][l].senses :
                            SurvivorAsClaimed(entriesByLanguage[lc][l].senses,
                                              entriesByLanguage'[lc][l].senses[k])]_vars

\* two senses of one entry were merged, the content coming from the later one
C17_Witness ==
    /\ stage = "links"
    /\ linksFile = NewLinksFile
    /\ \E lc \in DOMAIN extracted : \E l \in DOMAIN extracted[lc] :
          /\ Len(extracted[lc][l].senses) = 2
          /\ Len(entriesByLanguage[lc][l].senses) = 1
          /\ ~IsValidSense(extracted[lc][l].senses[1])
          /\ IsValidSense(extracted[lc][l].senses[2])
          /\ entriesByLanguage[lc][l].senses[1].definition
                 = extracted[lc][l].senses[2].definition
          /\ entriesByLanguage[lc][l].senses[1].glosses = extracted[lc][l].senses[2].glosses
          /\ entriesByLanguage[lc][l].senses[1].lexIndex
                 = extracted[lc][l].senses[1].lexIndex

\* two senses of one entry with conflicting content: the later one was dropped
C17_WitnessConflict ==
    /\ stage = "links"
    /\ \E lc \in DOMAIN extracted : \E l \in DOMAIN extracted[lc] :
          /\ Len(extracted[lc][l].senses) = 2
          /\ Len(entriesByLanguage[lc][l].senses) = 1
          /\ extracted[lc][l].senses[1].definition # ""
          /\ extracted[lc][l].senses[2].definition # ""
          /\ extracted[lc][l].senses[1].definition # extracted[lc][l].senses[2].definition

\* after condensing and merging, some language has two entries or two senses of one id
CollisionAfterMerge(ebl) ==
    LET merged == removeDuplicateSensesWithinEntry(CondenseAll(ebl))
    IN  \E lc \in DOMAIN merged :
           \/ \E l1, l2 \in DOMAIN merged[lc] :
                 l1 # l2 /\ merged[lc][l1].id = merged[lc][l2].id
           \/ \E l1, l2 \in DOMAIN merged[lc] :
                 \E i \in DOMAIN merged[lc][l1].senses, j \in DOMAIN merged[lc][l2].senses :
                    /\ <<l1, i>> # <<l2, j>>
                    /\ merged[lc][l1].senses[i].id = merged[lc][l2].senses[j].id

\* C18: the verification ends the run exactly when, after condensing and merging, two
\* entries or two senses of one language share an id; nothing catches the error: the
\* run stays ended, and no link is read, nothing is pruned and no output is written.
C18_CollisionAborts ==
    /\ [][VerifyStep =>
             (stage' = "aborted" <=> CollisionAfterMerge(entriesByLanguage))]_vars
    /\ [][stage = "aborted" => stage' = "aborted"]_vars
    /\ [](stage = "aborted" =>
             /\ linkTotals = NoLinks
             /\ linksFile = NewLinksFile
             /\ removalStats = [entriesRemoved |-> 0, sensesRemoved |-> 0,
                               totalEntries |-> 0, totalSenses |-> 0]
             /\ warnings = {}
             /\ output = EmptyMap)
    /\ [][stage = "aborted" => UNCHANGED convertVars]_vars

\* the run ended on two entries of one language with the same id
C18_Witness ==
    /\ stage = "aborted"
    /\ \E lc \in DOMAIN entriesByLanguage : \E l1, l2 \in DOMAIN entriesByLanguage[lc] :
          l1 # l2 /\ entriesByLanguage[lc][l1].id = entriesByLanguage[lc][l2].id

\* the run ended on two senses of one language with the same id
C18_WitnessSenses ==
    /\ stage = "aborted"
    /\ \E lc \in DOMAIN entriesByLanguage : \E l1, l2 \in DOMAIN entriesByLanguage[lc] :
          /\ l1 # l2
          /\ entriesByLanguage[lc][l1].id # entriesByLanguage[lc][l2].id
          /\ \E i \in DOMAIN entriesByLanguage[lc][l1].senses,
                j \in DOMAIN entriesByLanguage[lc][l2].senses :
                entriesByLanguage[lc][l1].senses[i].id = entriesByLanguage[lc][l2].senses[j].id

\* the step of main that calls removeDuplicateOccurrences
DedupeStep == stage = "dedupe" /\ stage' # "dedupe"

\* the senses of the lexicon: <<language, lemma, index>>
AllSenses(ebl) ==
    UNION {UNION {{<<lc, l, i>> : i \in DOMAIN ebl[lc][l].senses} :
                      l \in DOMAIN ebl[lc]} : lc \in DOMAIN ebl}

\* a list with a reference string at two positions
HasRepeat(occurrences) ==
    \E i, j \in DOMAIN occurrences : i # j /\ occurrences[i] = occurrences[j]

RECURSIVE FirstAppearances(_)
\* the elements of a list without the repeats, in order of first appearance
FirstAppearances(occurrences) ==
    IF occurrences = <<>> THEN <<>>
    ELSE LET front == SubSeq(occurrences, 1, Len(occurrences) - 1)
             last == occurrences[Len(occurrences)]
         IN  IF \E i \in DOMAIN front : front[i] = last
             THEN FirstAppearances(front)
             ELSE Append(FirstAppearances(front), last)

\* C19: removeDuplicateOccurrences leaves every sense's occurrences without repeats,
\* in order of first appearance, and warns of every sense whose list had a repeat.
C19_DuplicatesWarned ==
    [][DedupeStep =>
          /\ AllSenses(entriesByLanguage') = AllSenses(entriesByLanguage)
          /\ \A s \in AllSenses(entriesByLanguage) :
                /\ entriesByLanguage'[s[1]][s[2]].senses[s[3]].occurrences
                       = FirstAppearances(
                             entriesByLanguage[s[1]][s[2]].senses[s[3]].occurrences)
                /\ HasRepeat(entriesByLanguage[s[1]][s[2]].senses[s[3]].occurrences)
                       <=> s \in warnings']_vars

\* the lists alone, whatever is warned of
OccurrencesDeduplicated ==
    [][DedupeStep =>
          \A s \in AllSenses(entriesByLanguage) :
              entriesByLanguage'[s[1]][s[2]].senses[s[3]].occurrences
                  = FirstAppearances(entriesByLanguage[s[1]][s[2]].senses[s[3]].occurrences)]_vars

\* a step of processFile that pushes a sense
SensePushed ==
    /\ stage = "lexicon" /\ stage' = "lexicon"
    /\ entriesByLanguage' # entriesByLanguage

\* processFile can take one more element of the lexicon files
MoreElements ==
    stage = "lexicon" /\ consumed.elements < MaxElements /\ consumed.senses < MaxSenses

\* a Lexicon_Entry element with this Version is taken as the current entry
Admitted(version) ==
    ENABLED (NextLexiconEntry(<<"a">>, EntryId11, version) /\ walk'.level = "entry")

\* the version of the current entry is a number below n
VersionBelow(n) == ~walk.entryVersion.nan /\ walk.entryVersion.val < n

\* C20: for SDBH no sense is pushed under an entry of version below 3, and under an
\* entry of version below 5 only senses without contextual index and without
\* occurrences; an entry of version 3 or more is taken, and the CONMeanings of an
\* entry of version 5 or more are read.  For SDBG an entry of any version is taken
\* and its CONMeanings are read.
C20_VersionThresholds ==
    /\ [][(SensePushed /\ dictionaryType = DICTIONARY_TYPE_HEBREW) =>
             /\ ~VersionBelow(3)
             /\ VersionBelow(5) =>
                   \A sense \in PushedSenses :
                       ~sense.conIndex.defined /\ sense.occurrences = <<>>]_vars
    /\ [](stage = "lexicon" /\ dictionaryType = DICTIONARY_TYPE_HEBREW /\ walk.level # "file"
             => ~VersionBelow(3))
    /\ [](stage = "lexicon" /\ dictionaryType = DICTIONARY_TYPE_HEBREW
             /\ walk.level \in {"conMeanings", "contextualMeaning"}
             => ~VersionBelow(5))
    /\ [](MoreElements /\ dictionaryType = DICTIONARY_TYPE_HEBREW =>
             /\ ~Admitted(<<>>) /\ ~Admitted(<<"0">>) /\ ~Admitted(<<"2">>)
             /\ Admitted(<<"3">>) /\ Admitted(<<"4">>) /\ Admitted(<<"5">>)
             /\ Admitted(<<"1", "0">>))
    /\ [](MoreElements /\ dictionaryType = DICTIONARY_TYPE_GREEK =>
             /\ Admitted(<<>>) /\ Admitted(<<"0">>) /\ Admitted(<<"2">>)
             /\ Admitted(<<"4">>) /\ Admitted(<<"5">>))
    /\ [](MoreElements /\ walk.level \in InLexMeaningLevels =>
             (ENABLED NextConMeanings
                 <=> \/ dictionaryType = DICTIONARY_TYPE_GREEK
                     \/ ~VersionBelow(5)))

\* SDBH: under an entry of version 4 a lexical sense was pushed and the entry's
\* CONMeanings cannot be read
C20_Witness ==
    /\ stage = "lexicon"
    /\ dictionaryType = DICTIONARY_TYPE_HEBREW
    /\ walk.level = "lexMeaning"
    /\ walk.entryVersion.val = 4
    /\ MoreElements
    /\ ~ENABLED NextConMeanings
    /\ \E lc \in DOMAIN entriesByLanguage :
          /\ walk.lemma \in DOMAIN entriesByLanguage[lc]
          /\ \E i \in DOMAIN entriesByLanguage[lc][walk.lemma].senses :
                ~entriesByLanguage[lc][walk.lemma].senses[i].conIndex.defined

\* SDBH: under an entry of version 5 a contextual sense was pushed
C20_WitnessContextual ==
    /\ stage = "lexicon"
    /\ dictionaryType = DICTIONARY_TYPE_HEBREW
    /\ walk.level = "contextualMeaning"
    /\ walk.entryVersion.val = 5
    /\ \E lc \in DOMAIN entriesByLanguage :
          /\ walk.lemma \in DOMAIN entriesByLanguage[lc]
          /\ \E i \in DOMAIN entriesByLanguage[lc][walk.lemma].senses :
                entriesByLanguage[lc][walk.lemma].senses[i].conIndex.defined

\* SDBG: under an entry without Version a contextual sense was pushed
C20_WitnessGreek ==
    /\ stage = "lexicon"
    /\ dictionaryType = DICTIONARY_TYPE_GREEK
    /\ walk.level = "contextualMeaning"
    /\ walk.entryVersion.val = 0
    /\ \E lc \in DOMAIN entriesByLanguage :
          /\ walk.lemma \in DOMAIN entriesByLanguage[lc]
          /\ \E i \in DOMAIN entriesByLanguage[lc][walk.lemma].senses :
                entriesByLanguage[lc][walk.lemma].senses[i].conIndex.defined

----------------------------------------------------------------------------
(* convert-marble-lexicon.ts: processDomainFile and buildDomainHierarchy   *)
(* A SemanticDomain element is a record of the texts of its Code, Level    *)
(* and HasSubDomains elements (the empty text when the element is          *)
(* missing) and of the LanguageCode and Label of its localization.         *)

\* bound of the domain file: its SemanticDomain elements
MaxSemanticDomains == 3

\* an own property name that is an array index (a canonical number below 2^32 - 1,
\* which every number of up to nine digits is): Object.keys lists these first, in
\* ascending order, and the other names after them in order of insertion
IsArrayIndex(code) ==
    /\ IsNumeric(code)
    /\ Len(code) = 1 \/ code[1] # "0"
    /\ Len(code) <= 9

RECURSIVE AscendingKeys(_)
AscendingKeys(codes) ==
    IF codes = {} THEN <<>>
    ELSE LET least == CHOOSE c \in codes :
                          \A d \in codes : DecimalValue(c) <= DecimalValue(d)
         IN  <<least>> \o AscendingKeys(codes \ {least})

\* domainsByCode is kept as the sequence of its [code, domain] pairs in order of
\* insertion; Object.keys(domainsByCode) and for ... in
ObjectKeys(domainsByCode) ==
    LET inserted == [k \in DOMAIN domainsByCode |-> domainsByCode[k].code]
    IN  AscendingKeys({c \in Range(inserted) : IsArrayIndex(c)})
            \o SelectSeq(inserted, LAMBDA c : ~IsArrayIndex(c))

\* domainsByCode[code] = domain
PutDomain(domainsByCode, code, domain) ==
    IF \E k \in DOMAIN domainsByCode : domainsByCode[k].code = code
    THEN [k \in DOMAIN domainsByCode |->
             IF domainsByCode[k].code = code THEN [code |-> code, domain |-> domain]
             ELSE domainsByCode[k]]
    ELSE Append(domainsByCode, [code |-> code, domain |-> domain])

\* domainsByCode[code]
DomainAt(domainsByCode, code) ==
    domainsByCode[CHOOSE k \in DOMAIN domainsByCode : domainsByCode[k].code = code]

RECURSIVE FirstPass(_, _, _, _)
\* the first pass of processDomainFile: an element without a code, or with more than
\* one, is passed over
FirstPass(elements, i, domainsByCode, topLevelDomainCodes) ==
    IF i > Len(elements)
    THEN [domainsByCode |-> domainsByCode, topLevelDomainCodes |-> topLevelDomainCodes]
    ELSE LET domain == elements[i]
             codes == transformDomainCode(domain.code).codes
             level == IF domain.level = <<>> THEN <<"0">> ELSE domain.level
         IN  IF Len(codes) # 1
             THEN FirstPass(elements, i + 1, domainsByCode, topLevelDomainCodes)
             ELSE FirstPass(elements, i + 1, PutDomain(domainsByCode, codes[1], domain),
                            IF level = <<"1">> THEN Append(topLevelDomainCodes, codes[1])
                            ELSE topLevelDomainCodes)

\* processedLanguages: the language codes of the localizations, each once, in the
\* order in which for ... in meets them
ProcessedLanguages(domainsByCode) ==
    LET keys == ObjectKeys(domainsByCode)
    IN  UniqueInOrder(
            SelectSeq([k \in DOMAIN keys |-> DomainAt(domainsByCode, keys[k]).domain.languageCode],
                      LAMBDA languageCode : languageCode # ""), <<>>)

getLabelForLanguage(domainElement, languageCode) ==
    IF domainElement.languageCode # "" /\ domainElement.languageCode = languageCode
    THEN domainElement.label ELSE ""

\* the filter of buildDomainHierarchy letting through every code that begins with
\* the parent's, the parent's own too
IsChildCode_OwnCode(domainsMap, code, parentCode, currentLevel) ==
    LET levelText == DomainAt(domainsMap, code).domain.level
        level == ParseInt(IF levelText = <<>> THEN <<"0">> ELSE levelText)
    IN  /\ StartsWith(code, parentCode)
        /\ ~level.nan /\ level.val = currentLevel

\* the filter of buildDomainHierarchy with startsWith(parentCode) in place of
\* startsWith(`${parentCode}.`)
IsChildCode_NoSeparator(domainsMap, code, parentCode, currentLevel) ==
    LET levelText == DomainAt(domainsMap, code).domain.level
        level == ParseInt(IF levelText = <<>> THEN <<"0">> ELSE levelText)
    IN  /\ code # parentCode
        /\ StartsWith(code, parentCode)
        /\ ~level.nan /\ level.val = currentLevel

\* the filter of buildDomainHierarchy
IsChildCode(domainsMap, code, parentCode, currentLevel) ==
    LET levelText == DomainAt(domainsMap, code).domain.level
        level == ParseInt(IF levelText = <<>> THEN <<"0">> ELSE levelText)
    IN  /\ code # parentCode
        /\ StartsWith(code, parentCode \o <<".">>)
        /\ ~level.nan /\ level.val = currentLevel

\* Object.keys(domainsMap).filter(...)
ChildCodes(domainsMap, parentCode, currentLevel) ==
    SelectSeq(ObjectKeys(domainsMap),
              LAMBDA code : IsChildCode(domainsMap, code, parentCode, currentLevel))

\* one activation of buildDomainHierarchy (for a top-level domain: the loop body of
\* processDomainFile that calls it): the SubDomain being filled, the level looked
\* for, and the child codes forEach has still to visit
Frame(domainsMap, code, languageCode, currentLevel) ==
    [subDomain |-> [code |-> code,
                    label |-> getLabelForLanguage(DomainAt(domainsMap, code).domain,
                                                  languageCode),
                    subDomains |-> <<>>],
     currentLevel |-> currentLevel,
     childCodes |-> ChildCodes(domainsMap, code, currentLevel)]

\* parentDomain.subDomains.push(childSubDomain) in the activation on top of the stack
PushSubDomain(stack, childSubDomain) ==
    [stack EXCEPT ![Len(stack)].subDomain.subDomains = Append(@, childSubDomain)]

NoDomainFile ==
    [pc |-> "parse", domainsByCode |-> <<>>, topLevelDomainCodes |-> <<>>,
     languages |-> <<>>, languageCode |-> "", topLevel |-> <<>>, stack |-> <<>>]

\* the texts the elements of the domain file are drawn from
DomainCodeTexts == {<<"0", "0", "1">>, <<"0", "0", "1", "0", "0", "1">>,
                    <<"0", "0", "1", "0", "0", "1", "0", "0", "1">>, <<"0", "1", "0">>}
OddDomainCodeTexts == {<<>>, <<"0", "0", "1", ".", "0", "0", "2">>, <<"0", "0", "1">>,
                       <<"0", "0", "1", "0", "0", "2">>, <<"1", "2">>}
LevelTexts == {<<"1">>, <<"2">>, <<"3">>}
OddLevelTexts == {<<>>, <<"1">>, <<"2">>, <<"0", "2">>}

SemanticDomainInputs ==
    {[code |-> c, level |-> l, hasSubDomains |-> h, languageCode |-> "en", label |-> "l"] :
        c \in DomainCodeTexts, l \in LevelTexts, h \in {"true", "false"}}

OddSemanticDomainInputs ==
    {[code |-> c, level |-> l, hasSubDomains |-> h, languageCode |-> lc, label |-> "l"] :
        c \in OddDomainCodeTexts, l \in OddLevelTexts, h \in {"true", ""},
        lc \in {"", "en", "fr"}}

RECURSIVE ListsOf(_, _)
\* the sequences of n elements of a set
ListsOf(set, n) ==
    IF n = 0 THEN {<<>>}
    ELSE {Append(list, x) : list \in ListsOf(set, n - 1), x \in set}

\* the label of the i-th element names the element
Labelled(elements) ==
    [i \in DOMAIN elements |->
        [elements[i] EXCEPT !.label = IF i = 1 THEN "l1" ELSE IF i = 2 THEN "l2"
                                      ELSE IF i = 3 THEN "l3" ELSE "l4"]]

SemanticDomainLists ==
    {Labelled(elements) :
        elements \in UNION {ListsOf(SemanticDomainInputs, n) : n \in 0..MaxSemanticDomains}
                     \cup ListsOf(OddSemanticDomainInputs, MaxSemanticDomains - 1)}

DomainsInit ==
    /\ semanticDomains = <<>>
    /\ domainFile = NoDomainFile
    /\ taxonomiesByLanguage = EmptyMap
    /\ HelpersIdle
    /\ ConvertIdle
    /\ LoadIdle
    /\ TaxonomyIdle

\* the locals of processDomainFile when its loop over the languages begins
Collecting(file, collected) ==
    [file EXCEPT !.pc = "languages",
                 !.domainsByCode = collected.domainsByCode,
                 !.topLevelDomainCodes = collected.topLevelDomainCodes,
                 !.languages = ProcessedLanguages(collected.domainsByCode)]

\* processDomainFile reads and parses the file, one of the given ones
ParseDomainFile(documents) ==
    /\ domainFile.pc = "parse"
    /\ semanticDomains' \in documents
    /\ domainFile' = [domainFile EXCEPT !.pc = "read"]
    /\ UNCHANGED <<taxonomiesByLanguage, helperVars, convertVars, loadVars, taxonomyVars>>

\* processDomainFile from its first pass up to the loop over the languages
CollectDomains ==
    /\ domainFile.pc = "read"
    /\ domainFile' = Collecting(domainFile, FirstPass(semanticDomains, 1, <<>>, <<>>))
    /\ UNCHANGED <<semanticDomains, taxonomiesByLanguage, helperVars, convertVars, loadVars, taxonomyVars>>

\* the next language: its taxonomy is created with no subDomains
NextLanguage ==
    /\ domainFile.pc = "languages"
    /\ domainFile.languages # <<>>
    /\ LET languageCode == Head(domainFile.languages)
       IN  /\ domainFile' = [domainFile EXCEPT
                  !.pc = "topLevel",
                  !.languages = Tail(@),
                  !.languageCode = languageCode,
                  !.topLevel = domainFile.topLevelDomainCodes]
           /\ taxonomiesByLanguage' =
                  [lc \in DOMAIN taxonomiesByLanguage \cup {languageCode} |->
                      IF lc = languageCode THEN <<>> ELSE taxonomiesByLanguage[lc]]
    /\ UNCHANGED <<semanticDomains, helperVars, convertVars, loadVars, taxonomyVars>>

\* the next top-level code: its SubDomain is created and buildDomainHierarchy is
\* called for it with level 2
NextTopLevel ==
    /\ domainFile.pc = "topLevel"
    /\ domainFile.stack = <<>>
    /\ domainFile.topLevel # <<>>
    /\ domainFile' = [domainFile EXCEPT
           !.topLevel = Tail(@),
           !.stack = <<Frame(domainFile.domainsByCode, Head(domainFile.topLevel),
                             domainFile.languageCode, 2)>>]
    /\ UNCHANGED <<semanticDomains, taxonomiesByLanguage, helperVars, convertVars, loadVars, taxonomyVars>>

\* forEach of the running buildDomainHierarchy takes its next child code: a child
\* with HasSubDomains 'true' gets its own activation, any other is pushed as it is
NextChild ==
    /\ domainFile.pc = "topLevel"
    /\ domainFile.stack # <<>>
    /\ domainFile.stack[Len(domainFile.stack)].childCodes # <<>>
    /\ LET top == domainFile.stack[Len(domainFile.stack)]
           childCode == Head(top.childCodes)
           visited == [domainFile.stack EXCEPT ![Len(domainFile.stack)].childCodes = Tail(@)]
           child == Frame(domainFile.domainsByCode, childCode, domainFile.languageCode,
                          top.currentLevel + 1)
           hasSubDomains ==
               DomainAt(domainFile.domainsByCode, childCode).domain.hasSubDomains = "true"
       IN  domainFile' = [domainFile EXCEPT
               !.stack = IF hasSubDomains THEN Append(visited, child)
                         ELSE PushSubDomain(visited, child.subDomain)]
    /\ UNCHANGED <<semanticDomains, taxonomiesByLanguage, helperVars, convertVars, loadVars, taxonomyVars>>

\* the running buildDomainHierarchy returns: its SubDomain is pushed onto the
\* parent's subDomains, or onto the taxonomy's when it is a top-level one
ReturnHierarchy ==
    /\ domainFile.pc = "topLevel"
    /\ domainFile.stack # <<>>
    /\ domainFile.stack[Len(domainFile.stack)].childCodes = <<>>
    /\ LET top == domainFile.stack[Len(domainFile.stack)]
           rest == SubSeq(domainFile.stack, 1, Len(domainFile.stack) - 1)
       IN  IF rest = <<>>
           THEN /\ domainFile' = [domainFile EXCEPT !.stack = <<>>]
                /\ taxonomiesByLanguage' =
                       [taxonomiesByLanguage EXCEPT
                           ![domainFile.languageCode] = Append(@, top.subDomain)]
           ELSE /\ domainFile' = [domainFile EXCEPT
                                     !.stack = PushSubDomain(rest, top.subDomain)]
                /\ UNCHANGED taxonomiesByLanguage
    /\ UNCHANGED <<semanticDomains, helperVars, convertVars, loadVars, taxonomyVars>>

\* the top-level codes of the language are done
FinishLanguage ==
    /\ domainFile.pc = "topLevel"
    /\ domainFile.stack = <<>>
    /\ domainFile.topLevel = <<>>
    /\ domainFile' = [domainFile EXCEPT !.pc = "languages"]
    /\ UNCHANGED <<semanticDomains, taxonomiesByLanguage, helperVars, convertVars, loadVars, taxonomyVars>>

\* processDomainFile returns
FinishDomainFile ==
    /\ domainFile.pc = "languages"
    /\ domainFile.languages = <<>>
    /\ domainFile' = [domainFile EXCEPT !.pc = "done"]
    /\ UNCHANGED <<semanticDomains, taxonomiesByLanguage, helperVars, convertVars, loadVars, taxonomyVars>>

DomainsNext ==
    \/ ParseDomainFile(SemanticDomainLists)
    \/ CollectDomains
    \/ NextLanguage
    \/ NextTopLevel
    \/ NextChild
    \/ ReturnHierarchy
    \/ FinishLanguage
    \/ FinishDomainFile

SpecDomains == DomainsInit /\ [][DomainsNext]_vars

\* the steps of processDomainFile after its first pass are those of one synchronous
\* call: the call keeps running while it has a step to take
AfterFirstPass ==
    \/ NextLanguage
    \/ NextTopLevel
    \/ NextChild
    \/ ReturnHierarchy
    \/ FinishLanguage
    \/ FinishDomainFile

SpecDomainsLive == SpecDomains /\ WF_vars(AfterFirstPass)

----------------------------------------------------------------------------
(* Claims about the domain file                                            *)

\* the element is kept by the first pass: its Code text gives exactly one code
Collected(i) == Len(transformDomainCode(semanticDomains[i].code).codes) = 1

CodeOfElement(i) == transformDomainCode(semanticDomains[i].code).codes[1]

\* the codes of the collected elements of level 1, in document order
LevelOneCodes ==
    LET positions == SelectSeq([i \in DOMAIN semanticDomains |-> i],
                               LAMBDA i : Collected(i) /\ semanticDomains[i].level = <<"1">>)
    IN  [k \in DOMAIN positions |-> CodeOfElement(positions[k])]

\* the element a node of this code is made from: the last collected one with the code
ElementOfCode(code) ==
    semanticDomains[CHOOSE i \in DOMAIN semanticDomains :
                       /\ Collected(i) /\ CodeOfElement(i) = code
                       /\ \A j \in DOMAIN semanticDomains :
                             (Collected(j) /\ CodeOfElement(j) = code) => j <= i]

RECURSIVE WellAttached(_, _)
\* below a node at this depth: every child's code continues the node's code after a
\* '.', its element says level depth + 1, and a node that is not a root has children
\* only if its element says HasSubDomains 'true'
WellAttached(node, depth) ==
    /\ \E i \in DOMAIN semanticDomains : Collected(i) /\ CodeOfElement(i) = node.code
    /\ (depth > 1 /\ ElementOfCode(node.code).hasSubDomains # "true")
           => node.subDomains = <<>>
    /\ \A k \in DOMAIN node.subDomains :
          /\ StartsWith(node.subDomains[k].code, node.code \o <<".">>)
          /\ \E i \in DOMAIN semanticDomains :
                /\ Collected(i) /\ CodeOfElement(i) = node.subDomains[k].code
                /\ ParseInt(semanticDomains[i].level) = Num(depth + 1)
          /\ WellAttached(node.subDomains[k], depth + 1)

RootCodes(languageCode) ==
    [k \in DOMAIN taxonomiesByLanguage[languageCode] |->
        taxonomiesByLanguage[languageCode][k].code]

\* C21: in every taxonomy the roots are the collected elements of level 1 in
\* document order (while the file is processed, the first of them), and every node
\* below a root hangs under a parent whose code followed by '.' begins its own and
\* whose depth is one less than its level; a node that is not a root has children
\* only with HasSubDomains 'true'; every node is a collected element.
C21_TaxonomyTree ==
    \A languageCode \in DOMAIN taxonomiesByLanguage :
        /\ Len(RootCodes(languageCode)) <= Len(LevelOneCodes)
        /\ RootCodes(languageCode) = SubSeq(LevelOneCodes, 1, Len(RootCodes(languageCode)))
        /\ domainFile.pc = "done" => RootCodes(languageCode) = LevelOneCodes
        /\ \A k \in DOMAIN taxonomiesByLanguage[languageCode] :
              WellAttached(taxonomiesByLanguage[languageCode][k], 1)

\* a finished taxonomy three levels deep, with an element that is in no tree
C21_Witness ==
    /\ domainFile.pc = "done"
    /\ \E languageCode \in DOMAIN taxonomiesByLanguage :
          \E k \in DOMAIN taxonomiesByLanguage[languageCode] :
             LET root == taxonomiesByLanguage[languageCode][k]
             IN  /\ root.subDomains # <<>>
                 /\ root.subDomains[1].subDomains # <<>>

\* a finished taxonomy with roots and a collected element that is in none of its trees
C21_WitnessLeftOut ==
    /\ domainFile.pc = "done"
    /\ \E languageCode \in DOMAIN taxonomiesByLanguage :
          /\ Len(taxonomiesByLanguage[languageCode]) = 2
          /\ \A k \in DOMAIN taxonomiesByLanguage[languageCode] :
                taxonomiesByLanguage[languageCode][k].subDomains = <<>>
          /\ \E i \in DOMAIN semanticDomains :
                Collected(i) /\ semanticDomains[i].level = <<"2">>

\* C22: buildDomainHierarchy returns for every list of elements: processDomainFile,
\* once it has collected the elements, reaches its end, and every activation below the first works on a code strictly
\* longer than the code of the activation that called it, so that there are never
\* more activations than the longest code has characters.
C22_HierarchyTerminates ==
    /\ (domainFile.pc = "languages") ~> (domainFile.pc = "done")
    /\ [](\A k \in DOMAIN domainFile.stack :
             /\ k > 1 => Len(domainFile.stack[k].subDomain.code)
                             > Len(domainFile.stack[k - 1].subDomain.code)
             /\ k <= Len(domainFile.stack[k].subDomain.code))

\* buildDomainHierarchy is running inside buildDomainHierarchy for a child of a
\* top-level domain
C22_Witness ==
    /\ domainFile.pc = "topLevel"
    /\ Len(domainFile.stack) = 3

----------------------------------------------------------------------------
(* import-lexicon-to-sqlite: the schema and the SQL statements the loader   *)
(* issues.  A table is the set of its rows; a row is a record of its        *)
(* columns.  Every row carries one more field, file, that is no column of   *)
(* the schema: the index of the file whose processing inserted the row.     *)

\* a nullable column (Senses.Definition) holds SqlNull or SqlText(t)
SqlNull == [isNull |-> TRUE, text |-> ""]
SqlText(t) == [isNull |-> FALSE, text |-> t]

\* the nullable key column TaxonomyDomains.ParentTaxonomyDomainKey holds a
\* rowid, which is 1 or more, or NullKey
NullKey == 0

\* the tables the modelled documents reach (documents of the model carry no
\* Taxonomies, Domains or StrongsCodes elements)
EmptyDb ==
    [Languages |-> {}, LexicalReferenceTexts |-> {}, Entries |-> {}, Senses |-> {},
     Glosses |-> {}, Corpora |-> {}, EntryOccurrences |-> {}, SenseOccurrences |-> {}]

\* the INTEGER PRIMARY KEY column of a table, "" for a table without one
KeyColumn ==
    [Languages |-> "LanguageKey", LexicalReferenceTexts |-> "LexicalReferenceTextKey",
     Entries |-> "EntryKey", Senses |-> "SenseKey", Glosses |-> "", Corpora |-> "CorpusKey",
     EntryOccurrences |-> "", SenseOccurrences |-> "",
     Taxonomies |-> "TaxonomyKey", TaxonomyDomains |-> "TaxonomyDomainKey",
     TaxonomyDomainLabels |-> ""]

\* the UNIQUE and composite PRIMARY KEY constraints of each table
UniqueKeys ==
    [Languages |-> {{"BCP47Code"}},
     LexicalReferenceTexts |-> {{"Id", "Version"}},
     Entries |-> {{"Id", "LexicalReferenceTextKey"}, {"Lemma", "LexicalReferenceTextKey"}},
     Senses |-> {{"Id", "EntryKey", "LanguageKey"}},
     Glosses |-> {{"SenseKey", "Gloss"}},
     Corpora |-> {{"Id"}},
     EntryOccurrences |->
         {{"EntryKey", "CorpusKey", "BookNum", "ChapterNum", "VerseNum", "WordNum"}},
     SenseOccurrences |->
         {{"SenseKey", "CorpusKey", "BookNum", "ChapterNum", "VerseNum", "WordNum"}},
     Taxonomies |-> {{"Id"}},
     TaxonomyDomains |-> {{"TaxonomyKey", "DomainCode"}},
     TaxonomyDomainLabels |-> {{"TaxonomyDomainKey", "LanguageKey"}}]

\* the FOREIGN KEY constraints: <<column, referenced table, referenced column>>
ForeignKeys ==
    [Languages |-> {},
     LexicalReferenceTexts |-> {},
     Entries |-> {<<"LexicalReferenceTextKey", "LexicalReferenceTexts",
                    "LexicalReferenceTextKey">>},
     Senses |-> {<<"EntryKey", "Entries", "EntryKey">>,
                 <<"LanguageKey", "Languages", "LanguageKey">>},
     Glosses |-> {<<"SenseKey", "Senses", "SenseKey">>},
     Corpora |-> {},
     EntryOccurrences |-> {<<"EntryKey", "Entries", "EntryKey">>,
                           <<"CorpusKey", "Corpora", "CorpusKey">>},
     SenseOccurrences |-> {<<"SenseKey", "Senses", "SenseKey">>,
                           <<"CorpusKey", "Corpora", "CorpusKey">>},
     Taxonomies |-> {},
     TaxonomyDomains |-> {<<"TaxonomyKey", "Taxonomies", "TaxonomyKey">>,
                          <<"ParentTaxonomyDomainKey", "TaxonomyDomains",
                            "TaxonomyDomainKey">>},
     TaxonomyDomainLabels |-> {<<"TaxonomyDomainKey", "TaxonomyDomains",
                                 "TaxonomyDomainKey">>}]

RowCounts(d) == [t \in DOMAIN d |-> Cardinality(d[t])]

\* the rowid SQLite gives a new row of a table with an INTEGER PRIMARY KEY:
\* one more than the largest rowid in the table
NextRowId(rows, keyColumn) ==
    IF rows = {} THEN 1
    ELSE (CHOOSE k \in {r[keyColumn] : r \in rows} :
              \A r \in rows : r[keyColumn] <= k) + 1

\* Conflicts without the primary keys of the two occurrence tables
Conflicts_OccurrencesRepeat(table, row, rows) ==
    /\ table \notin {"EntryOccurrences", "SenseOccurrences"}
    /\ \E key \in UniqueKeys[table], r \in rows : \A c \in key : r[c] = row[c]

\* the row would break a UNIQUE or PRIMARY KEY constraint of the table
Conflicts(table, row, rows) ==
    \E key \in UniqueKeys[table], r \in rows : \A c \in key : r[c] = row[c]

\* the row would break a FOREIGN KEY constraint of the table; a NULL in the
\* column breaks none
ViolatesForeignKey(d, table, row) ==
    \E fk \in ForeignKeys[table] :
        /\ ~(fk[1] = "ParentTaxonomyDomainKey" /\ row[fk[1]] = NullKey)
        /\ ~\E r \in d[fk[2]] : r[fk[3]] = row[fk[1]]

\* the row as stored: its columns, its rowid if the table has one, and the file
StoredRow(d, table, row, file) ==
    LET keyColumn == KeyColumn[table]
        extra == IF keyColumn = "" THEN {"file"} ELSE {"file", keyColumn}
    IN  [c \in DOMAIN row \cup extra |->
            IF c = "file" THEN file
            ELSE IF c = keyColumn THEN NextRowId(d[table], keyColumn)
            ELSE row[c]]

\* INSERT OR IGNORE INTO table (...) VALUES (...): a row that breaks a uniqueness
\* constraint is skipped; a foreign key violation is an error, whatever the
\* conflict clause.  The result is sqlite3.RunResult plus the new database.
insert(d, table, row, file) ==
    IF Conflicts(table, row, d[table])
    THEN [db |-> d, changes |-> 0, lastID |-> 0, error |-> FALSE]
    ELSE IF ViolatesForeignKey(d, table, row)
    THEN [db |-> d, changes |-> 0, lastID |-> 0, error |-> TRUE]
    ELSE LET stored == StoredRow(d, table, row, file)
         IN  [db |-> [d EXCEPT ![table] = @ \cup {stored}],
              changes |-> 1,
              lastID |-> IF KeyColumn[table] = "" THEN 0 ELSE stored[KeyColumn[table]],
              error |-> FALSE]

RECURSIVE bulkInsertFrom(_, _, _, _, _, _)
\* one INSERT OR IGNORE statement with several rows: the rows are taken in
\* order; an error undoes the whole statement
bulkInsertFrom(d0, d, table, values, i, file) ==
    IF i > Len(values) THEN [db |-> d, error |-> FALSE]
    ELSE LET r == insert(d, table, values[i], file)
         IN  IF r.error THEN [db |-> d0, error |-> TRUE]
             ELSE bulkInsertFrom(d0, r.db, table, values, i + 1, file)

bulkInsert(d, table, values, file) == bulkInsertFrom(d, d, table, values, 1, file)

\* column = ? in a WHERE clause: never true when either side is NULL
ColumnEquals(column, stored, value) ==
    IF column = "Definition"
    THEN ~stored.isNull /\ ~value.isNull /\ stored.text = value.text
    ELSE IF column = "ParentTaxonomyDomainKey"
    THEN stored # NullKey /\ value # NullKey /\ stored = value
    ELSE stored = value

\* SELECT keyColumn FROM table WHERE every supplied column = its value; the
\* caller throws when no record is found
getKey(d, table, columnsAndValues) ==
    LET records == {r \in d[table] : \A c \in DOMAIN columnsAndValues :
                                        ColumnEquals(c, r[c], columnsAndValues[c])}
    IN  IF records = {} THEN [found |-> FALSE, key |-> 0]
        ELSE [found |-> TRUE, key |-> (CHOOSE r \in records : TRUE)[KeyColumn[table]]]

----------------------------------------------------------------------------
(* import-lexicon-to-sqlite: processEntry as a sequence of awaited          *)
(* statements                                                               *)

NoCorpus == [Id |-> "", occurrences |-> <<>>]

RECURSIVE processOccurrencesOps(_, _, _, _)
\* processOccurrences: for each Corpus element with an Id, the corpus key
\* (cache or insertAndGetKey) and then the bulk insert of its occurrences
processOccurrencesOps(table, s, corpora, i) ==
    IF i > Len(corpora) THEN <<>>
    ELSE (IF corpora[i].Id = "" THEN <<>>
          ELSE <<[kind |-> "corpus", table |-> table, s |-> s, gloss |-> "",
                  corpus |-> corpora[i]],
                 [kind |-> "occurrences", table |-> table, s |-> s, gloss |-> "",
                  corpus |-> corpora[i]]>>)
         \o processOccurrencesOps(table, s, corpora, i + 1)

RECURSIVE GlossOps(_, _, _)
\* the Gloss elements with text, one insert each
GlossOps(s, glosses, i) ==
    IF i > Len(glosses) THEN <<>>
    ELSE (IF glosses[i] = "" THEN <<>>
          ELSE <<[kind |-> "gloss", table |-> "Glosses", s |-> s, gloss |-> glosses[i],
                  corpus |-> NoCorpus]>>)
         \o GlossOps(s, glosses, i + 1)

\* processSense: nothing for a sense without Id; else the Senses row, the
\* glosses, the occurrences of the sense
processSenseOps(senses, s) ==
    IF senses[s].Id = "" THEN <<>>
    ELSE <<[kind |-> "sense", table |-> "Senses", s |-> s, gloss |-> "",
            corpus |-> NoCorpus]>>
         \o GlossOps(s, senses[s].glosses, 1)
         \o processOccurrencesOps("SenseOccurrences", s, senses[s].corpora, 1)

RECURSIVE SensesOps(_, _)
SensesOps(senses, s) ==
    IF s > Len(senses) THEN <<>>
    ELSE processSenseOps(senses, s) \o SensesOps(senses, s + 1)

\* entryElement.getElementsByTagName('Occurrences')[0] searches all descendants:
\* for an entry whose Occurrences elements are inside its senses, it is the
\* Occurrences element of the first sense that has one
FirstOccurrencesSense(senses) ==
    LET having == {s \in 1..Len(senses) : senses[s].corpora # <<>>}
    IN  IF having = {} THEN 0 ELSE CHOOSE s \in having : \A u \in having : s <= u

\* processEntry: the Entries row, the entry-level occurrences, the senses
processEntryOps(entry) ==
    LET first == FirstOccurrencesSense(entry.senses)
    IN  <<[kind |-> "entry", table |-> "Entries", s |-> 0, gloss |-> "",
           corpus |-> NoCorpus]>>
        \o (IF first = 0 THEN <<>>
            ELSE processOccurrencesOps("EntryOccurrences", first,
                                       entry.senses[first].corpora, 1))
        \o SensesOps(entry.senses, 1)

\* one row of an occurrence table from a parsed reference
OccurrenceRow(table, itemKey, corpusKey, parsedReference) ==
    IF table = "EntryOccurrences"
    THEN [EntryKey |-> itemKey, CorpusKey |-> corpusKey,
          BookNum |-> parsedReference.bookNum, ChapterNum |-> parsedReference.chapterNum,
          VerseNum |-> parsedReference.verseNum, WordNum |-> parsedReference.wordNum]
    ELSE [SenseKey |-> itemKey, CorpusKey |-> corpusKey,
          BookNum |-> parsedReference.bookNum, ChapterNum |-> parsedReference.chapterNum,
          VerseNum |-> parsedReference.verseNum, WordNum |-> parsedReference.wordNum]

\* an Occurrence element processOccurrences does not skip: Type U23003, some
\* text, and text that parseU23003Reference accepts
UsableOccurrence(o) ==
    /\ o.Type = "U23003"
    /\ o.text # <<>>
    /\ parseU23003Reference(o.text) # Null

RECURSIVE OccurrenceValues(_, _, _, _)
\* the rows processOccurrences collects for one Corpus element
OccurrenceValues(table, itemKey, corpusKey, occurrences) ==
    IF occurrences = <<>> THEN <<>>
    ELSE (IF UsableOccurrence(Head(occurrences))
          THEN <<OccurrenceRow(table, itemKey, corpusKey,
                               parseU23003Reference(Head(occurrences).text))>>
          ELSE <<>>)
         \o OccurrenceValues(table, itemKey, corpusKey, Tail(occurrences))

\* the columns and values of the statement a task has in flight
RowOf(task, entry) ==
    LET op == task.ops[task.pc]
    IN  CASE op.kind = "entry" ->
                [Id |-> entry.Id, Lemma |-> entry.Lemma,
                 LexicalReferenceTextKey |-> task.refTextKey]
          [] op.kind = "sense" ->
                [Id |-> entry.senses[op.s].Id,
                 EntryKey |-> task.entryKey,
                 Definition |-> IF entry.senses[op.s].Definition = "" THEN SqlNull
                                ELSE SqlText(entry.senses[op.s].Definition),
                 LanguageKey |-> task.languageKey]
          [] op.kind = "gloss" -> [SenseKey |-> task.senseKey, Gloss |-> op.gloss]
          [] OTHER -> [Id |-> op.corpus.Id]

\* insertAndGetKey, one awaited statement at a time: the insert, and the select
\* when the insert changed nothing; getKey throws when it finds no record
insertAndGetKey(d, table, row, awaiting, file) ==
    IF awaiting = "insert"
    THEN LET r == insert(d, table, row, file)
         IN  IF r.error THEN [db |-> d, outcome |-> "error", key |-> 0]
             ELSE IF r.changes # 0 THEN [db |-> r.db, outcome |-> "ok", key |-> r.lastID]
             ELSE [db |-> d, outcome |-> "select", key |-> 0]
    ELSE LET g == getKey(d, table, row)
         IN  IF g.found THEN [db |-> d, outcome |-> "ok", key |-> g.key]
             ELSE [db |-> d, outcome |-> "error", key |-> 0]

\* the statement a task has in flight runs against database d
Statement(d, task, entry) ==
    LET op == task.ops[task.pc]
    IN  IF op.kind \in {"entry", "sense", "corpus"}
        THEN insertAndGetKey(d, IF op.kind = "corpus" THEN "Corpora" ELSE op.table,
                             RowOf(task, entry), task.awaiting, task.file)
        ELSE IF op.kind = "gloss"
        THEN LET r == insert(d, "Glosses", RowOf(task, entry), task.file)
             IN  [db |-> r.db, outcome |-> IF r.error THEN "error" ELSE "ok", key |-> 0]
        ELSE LET itemKey == IF op.table = "EntryOccurrences" THEN task.entryKey
                            ELSE task.senseKey
                 r == bulkInsert(d, op.table,
                                 OccurrenceValues(op.table, itemKey, task.corpusKey,
                                                  op.corpus.occurrences),
                                 task.file)
             IN  [db |-> r.db, outcome |-> IF r.error THEN "error" ELSE "ok", key |-> 0]

RECURSIVE Advance(_, _, _)
\* the code of a task from one await to the next: operations that issue no
\* statement (a corpus found in the cache, a Corpus element without usable
\* occurrences) are passed; the task is fulfilled when none is left
Advance(task, corpora, j) ==
    IF j > Len(task.ops)
    THEN [task EXCEPT !.pc = j, !.status = "fulfilled"]
    ELSE LET op == task.ops[j]
         IN  IF op.kind = "corpus" /\ op.corpus.Id \in DOMAIN corpora
             THEN Advance([task EXCEPT !.corpusKey = corpora[op.corpus.Id]], corpora, j + 1)
             ELSE IF /\ op.kind = "occurrences"
                     /\ \A i \in 1..Len(op.corpus.occurrences) :
                            ~UsableOccurrence(op.corpus.occurrences[i])
             THEN Advance(task, corpora, j + 1)
             ELSE [task EXCEPT !.pc = j, !.awaiting = "insert"]

\* the task after its statement in flight has completed with result r
Continue(task, r, corpora) ==
    LET kind == task.ops[task.pc].kind
    IN  IF r.outcome = "error" THEN [task EXCEPT !.status = "rejected"]
        ELSE IF r.outcome = "select" THEN [task EXCEPT !.awaiting = "select"]
        ELSE Advance([task EXCEPT !.entryKey = IF kind = "entry" THEN r.key ELSE @,
                                  !.senseKey = IF kind = "sense" THEN r.key ELSE @,
                                  !.corpusKey = IF kind = "corpus" THEN r.key ELSE @],
                     corpora, task.pc + 1)

\* processEntry(entry, lexRefKey, languageKey, db, filePath) up to its first
\* await: an entry without Id or Lemma is skipped
NewTask(file, e, entry, refTextKey, languageKey) ==
    LET task == [file |-> file, entry |-> e, ops |-> processEntryOps(entry), pc |-> 1,
                 awaiting |-> "insert", status |-> "inflight",
                 refTextKey |-> refTextKey, languageKey |-> languageKey,
                 entryKey |-> 0, senseKey |-> 0, corpusKey |-> 0]
    IN  IF entry.Id = "" \/ entry.Lemma = ""
        THEN [task EXCEPT !.ops = <<>>, !.status = "fulfilled"]
        ELSE task

----------------------------------------------------------------------------
(* import-lexicon-to-sqlite: the documents that are loaded                  *)

\* the files a run reads, and the entries in a document, at most
MaxFiles == 2
MaxEntries == 2

GEN_1_1_1 == <<"G", "E", "N", " ", "1", ":", "1", "!", "1">>
Malformed == <<"G", "E", "N", " ", "1", ":", "1">>

CorpusInput ==
    [Id |-> "UBSGNT5",
     occurrences |-> <<[Type |-> "U23003", text |-> GEN_1_1_1],
                       [Type |-> "U23003", text |-> Malformed]>>]

SenseWithOccurrences ==
    [Id |-> "s1", Definition |-> "d1", glosses |-> <<"g1">>, corpora |-> <<CorpusInput>>]
SenseWithoutDefinition ==
    [Id |-> "s1", Definition |-> "", glosses |-> <<>>, corpora |-> <<>>]
SenseOtherDefinition ==
    [Id |-> "s1", Definition |-> "d2", glosses |-> <<>>, corpora |-> <<>>]

EntryInputs ==
    {[Id |-> "e1", Lemma |-> "a", senses |-> <<SenseWithOccurrences>>],
     [Id |-> "e1", Lemma |-> "b", senses |-> <<>>],
     [Id |-> "e2", Lemma |-> "c", senses |-> <<SenseWithoutDefinition>>],
     [Id |-> "e3", Lemma |-> "d", senses |-> <<SenseWithoutDefinition, SenseOtherDefinition>>],
     [Id |-> "", Lemma |-> "e", senses |-> <<>>]}

EntryLists == UNION {[1..n -> EntryInputs] : n \in 0..MaxEntries}

\* a file is its root element: nodeName, the header attributes, the entries;
\* fatalError says that the parser reports a fatal error for the file
DocumentInputs ==
    {[fatalError |-> FALSE, nodeName |-> "LexicalReferenceText",
      Id |-> "SDBG", DataVersion |-> "1", SchemaVersion |-> "1.0", Language |-> "en",
      entries |-> es] : es \in EntryLists}
    \cup {[fatalError |-> FALSE, nodeName |-> "LexicalReferenceText",
           Id |-> "SDBG", DataVersion |-> "1", SchemaVersion |-> "0.9", Language |-> "en",
           entries |-> <<>>],
          [fatalError |-> FALSE, nodeName |-> "Thesaurus",
           Id |-> "SDBG", DataVersion |-> "1", SchemaVersion |-> "1.0", Language |-> "en",
           entries |-> <<>>],
          [fatalError |-> FALSE, nodeName |-> "LexicalReferenceText",
           Id |-> "SDBG", DataVersion |-> "1", SchemaVersion |-> "1.0", Language |-> "",
           entries |-> <<>>],
          [fatalError |-> TRUE, nodeName |-> "",
           Id |-> "", DataVersion |-> "", SchemaVersion |-> "", Language |-> "",
           entries |-> <<>>]}

\* the same reference text in another language
OtherLanguageDocument ==
    [fatalError |-> FALSE, nodeName |-> "LexicalReferenceText",
     Id |-> "SDBG", DataVersion |-> "1", SchemaVersion |-> "1.0", Language |-> "fr",
     entries |-> <<[Id |-> "e1", Lemma |-> "a", senses |-> <<SenseWithOccurrences>>]>>]

\* the first file is any document; a later file is the first one again or the
\* document in the other language
FileLists ==
    {fs \in UNION {[1..n -> DocumentInputs \cup {OtherLanguageDocument}] : n \in 1..MaxFiles} :
        /\ fs[1] \in DocumentInputs
        /\ \A i \in 2..Len(fs) : fs[i] \in {fs[1], OtherLanguageDocument}}

----------------------------------------------------------------------------
(* import-lexicon-to-sqlite: main, processDirectory, processLexicalReference *)

\* db.exec runs its statement alone: it starts when no other statement of the
\* connection is in flight, and statements issued meanwhile wait for it
ExclusivePcs == {"begin", "commit", "rollback", "vacuum", "analyze", "close"}

NoneInFlight(ts) == \A k \in 1..Len(ts) : ts[k].status # "inflight"

\* the statement main waits to exec runs, and main goes on to its next await
Exclusive(sq, ld, out, idx) ==
    CASE ld.pc = "begin" ->
            [sqlite |-> [sq EXCEPT !.inTxn = TRUE, !.snapshot = sq.db],
             loader |-> [ld EXCEPT !.pc = "language", !.awaiting = "insert"],
             outcome |-> out]
      [] ld.pc = "commit" ->
            [sqlite |-> [sq EXCEPT !.inTxn = FALSE],
             loader |-> [ld EXCEPT !.pc = "idle"],
             outcome |-> [out EXCEPT ![idx] = [result |-> "committed",
                                               counts |-> RowCounts(sq.db)]]]
      [] ld.pc = "rollback" ->
            [sqlite |-> [sq EXCEPT !.inTxn = FALSE, !.db = sq.snapshot],
             loader |-> [ld EXCEPT !.pc = "idle"],
             outcome |-> [out EXCEPT ![idx] = [result |-> "rolledBack",
                                               counts |-> RowCounts(sq.snapshot)]]]
      [] ld.pc = "vacuum" ->
            [sqlite |-> sq, loader |-> [ld EXCEPT !.pc = "analyze"], outcome |-> out]
      [] ld.pc = "analyze" ->
            [sqlite |-> sq, loader |-> [ld EXCEPT !.pc = "close"], outcome |-> out]
      [] OTHER ->
            [sqlite |-> [sq EXCEPT !.open = FALSE],
             loader |-> [ld EXCEPT !.pc = "closed"], outcome |-> out]

LoadInit ==
    /\ files \in FileLists
    /\ fileIdx = 0
    /\ loader = [pc |-> "idle", awaiting |-> "insert", languageKey |-> 0, lexRefKey |-> 0]
    /\ tasks = <<>>
    /\ sqlite = [db |-> EmptyDb, snapshot |-> EmptyDb, inTxn |-> FALSE, open |-> TRUE]
    /\ cache = [corpora |-> EmptyMap]
    /\ outcome = [i \in 1..Len(files) |-> [result |-> "none", counts |-> RowCounts(EmptyDb)]]
    /\ HelpersIdle
    /\ ConvertIdle
    /\ DomainsIdle
    /\ TaxonomyIdle

\* the header validation of processLexicalReference turns the document down
RejectedByHeader(doc) ==
    \/ doc.nodeName # "LexicalReferenceText"
    \/ doc.SchemaVersion # "1.0"
    \/ doc.Id = "" \/ doc.DataVersion = "" \/ doc.Language = ""

\* processDirectory takes the next file; processLexicalReference parses it,
\* checks its header and, for a supported one, issues BEGIN TRANSACTION.  The
\* fatalError handler of the parser throws, outside the try block: the error
\* leaves processDirectory and reaches the catch of main, which closes the
\* database and exits.
StartFile ==
    /\ loader.pc = "idle"
    /\ fileIdx < Len(files)
    /\ fileIdx' = fileIdx + 1
    /\ LET doc == files[fileIdx + 1]
       IN  IF doc.fatalError
           THEN /\ outcome' = [outcome EXCEPT ![fileIdx + 1] =
                                  [result |-> "threw", counts |-> RowCounts(sqlite.db)]]
                /\ loader' = [loader EXCEPT !.pc = "close"]
           ELSE IF RejectedByHeader(doc)
           THEN /\ outcome' = [outcome EXCEPT ![fileIdx + 1] =
                                  [result |-> "skipped", counts |-> RowCounts(sqlite.db)]]
                /\ UNCHANGED loader
           ELSE /\ loader' = [loader EXCEPT !.pc = "begin"]
                /\ UNCHANGED outcome
    /\ UNCHANGED <<files, tasks, sqlite, cache, helperVars, convertVars, domainVars, taxonomyVars>>

\* every file has been processed: optimizeDatabase and db.close follow
FinishDirectories ==
    /\ loader.pc = "idle"
    /\ fileIdx = Len(files)
    /\ loader' = [loader EXCEPT !.pc = "vacuum"]
    /\ UNCHANGED <<files, fileIdx, tasks, sqlite, cache, outcome, helperVars, convertVars, domainVars, taxonomyVars>>

\* BEGIN TRANSACTION, COMMIT, ROLLBACK, VACUUM, ANALYZE or close, issued while
\* no statement is in flight
RunExclusive ==
    /\ loader.pc \in ExclusivePcs
    /\ NoneInFlight(tasks)
    /\ LET x == Exclusive(sqlite, loader, outcome, fileIdx)
       IN  /\ sqlite' = x.sqlite
           /\ loader' = x.loader
           /\ outcome' = x.outcome
    /\ UNCHANGED <<files, fileIdx, tasks, cache, helperVars, convertVars, domainVars, taxonomyVars>>

\* a statement of processLexicalReference itself completes: the Languages row,
\* the LexicalReferenceTexts row; then the entries of the document are started
\* together (documents of the model fit in one batch of 100) and awaited
LexicalReferenceStep ==
    /\ loader.pc \in {"language", "lexref"}
    /\ LET doc == files[fileIdx]
           table == IF loader.pc = "language" THEN "Languages" ELSE "LexicalReferenceTexts"
           row == IF loader.pc = "language" THEN [BCP47Code |-> doc.Language]
                  ELSE [Id |-> doc.Id, Version |-> doc.DataVersion]
           r == insertAndGetKey(sqlite.db, table, row, loader.awaiting, fileIdx)
           batch == [e \in 1..Len(doc.entries) |->
                        NewTask(fileIdx, e, doc.entries[e], r.key, loader.languageKey)]
       IN  /\ sqlite' = [sqlite EXCEPT !.db = r.db]
           /\ IF r.outcome = "error"
              THEN /\ loader' = [loader EXCEPT !.pc = "rollback"]
                   /\ UNCHANGED tasks
              ELSE IF r.outcome = "select"
              THEN /\ loader' = [loader EXCEPT !.awaiting = "select"]
                   /\ UNCHANGED tasks
              ELSE IF loader.pc = "language"
              THEN /\ loader' = [loader EXCEPT !.pc = "lexref", !.awaiting = "insert",
                                               !.languageKey = r.key]
                   /\ UNCHANGED tasks
              ELSE /\ loader' = [loader EXCEPT !.lexRefKey = r.key,
                                               !.pc = IF NoneInFlight(batch) THEN "commit"
                                                      ELSE "entries"]
                   /\ tasks' = tasks \o batch
    /\ UNCHANGED <<files, fileIdx, cache, outcome, helperVars, convertVars, domainVars, taxonomyVars>>

\* cache.corpora.set(corpusName, corpusKey) after a corpus key was obtained
CorporaAfter(task, r) ==
    IF r.outcome = "ok" /\ task.ops[task.pc].kind = "corpus"
    THEN [n \in DOMAIN cache.corpora \cup {task.ops[task.pc].corpus.Id} |->
             IF n = task.ops[task.pc].corpus.Id THEN r.key ELSE cache.corpora[n]]
    ELSE cache.corpora

\* PromiseAll that resolves as soon as one call of the batch is fulfilled
PromiseAll_Race(ld, k, after) ==
    IF ld.pc # "entries" \/ after.file # fileIdx THEN ld
    ELSE IF after.status = "rejected" THEN [ld EXCEPT !.pc = "rollback"]
    ELSE IF after.status = "fulfilled" THEN [ld EXCEPT !.pc = "commit"]
    ELSE ld

\* Promise.all of the batch main awaits rejects at the first call that throws
\* and resolves when every call of the batch is fulfilled
PromiseAll(ld, k, after) ==
    IF ld.pc # "entries" \/ after.file # fileIdx THEN ld
    ELSE IF after.status = "rejected" THEN [ld EXCEPT !.pc = "rollback"]
    ELSE IF \A j \in 1..Len(tasks) :
               tasks[j].file = fileIdx =>
                   (IF j = k THEN after.status ELSE tasks[j].status) = "fulfilled"
    THEN [ld EXCEPT !.pc = "commit"]
    ELSE ld

\* the call has run to its next await, or has settled
EntrySettles(k, ld, after) ==
    /\ tasks' = [tasks EXCEPT ![k] = after]
    /\ loader' = PromiseAll(ld, k, after)

\* the rest of EntryStep, once the statement has given r and main's waiting
\* statement, if it was due, has given x
EntryContinues(k, r, x) ==
    /\ sqlite' = x.sqlite
    /\ outcome' = x.outcome
    /\ cache' = [cache EXCEPT !.corpora = CorporaAfter(tasks[k], r)]
    /\ EntrySettles(k, x.loader, Continue(tasks[k], r, CorporaAfter(tasks[k], r)))

\* the statement a processEntry call has in flight has completed with r.  If
\* main waits to exec a statement and nothing else is in flight, that statement
\* runs next, before what this call issues; then the call runs to its next await.
EntryCompletes(k, r) ==
    EntryContinues(k, r,
        IF /\ loader.pc \in ExclusivePcs
           /\ ~\E j \in 1..Len(tasks) : j # k /\ tasks[j].status = "inflight"
        THEN Exclusive([sqlite EXCEPT !.db = r.db], loader, outcome, fileIdx)
        ELSE [sqlite |-> [sqlite EXCEPT !.db = r.db], loader |-> loader,
              outcome |-> outcome])

\* the statement a processEntry call has in flight completes; a statement on a
\* closed connection fails
EntryStep(k) ==
    /\ k \in 1..Len(tasks)
    /\ tasks[k].status = "inflight"
    /\ EntryCompletes(k,
           IF sqlite.open
           THEN Statement(sqlite.db, tasks[k], files[tasks[k].file].entries[tasks[k].entry])
           ELSE [db |-> sqlite.db, outcome |-> "error", key |-> 0])
    /\ UNCHANGED <<files, fileIdx, helperVars, convertVars, domainVars, taxonomyVars>>

LoadNext ==
    \/ StartFile
    \/ FinishDirectories
    \/ RunExclusive
    \/ LexicalReferenceStep
    \/ \E k \in 1..(MaxFiles * MaxEntries) : EntryStep(k)

SpecLoad == LoadInit /\ [][LoadNext]_vars

----------------------------------------------------------------------------
(* import-lexicon-to-sqlite: processTaxonomy and processSubDomain.  The      *)
(* taxonomies of a document are loaded before its entries, one awaited       *)
(* statement after the other.  The SubDomain elements of the Taxonomy are    *)
(* kept in document order; each names the SubDomain that encloses it.        *)

\* the SubDomain elements in a Taxonomy, at most
MaxSubDomains == 3

EmptyTaxonomyDb == [Taxonomies |-> {}, TaxonomyDomains |-> {}, TaxonomyDomainLabels |-> {}]

\* insertAndGetKey with both its statements awaited
insertAndGetKeyAwaited(d, table, row, file) ==
    LET r == insertAndGetKey(d, table, row, "insert", file)
    IN  IF r.outcome = "select" THEN insertAndGetKey(d, table, row, "select", file)
        ELSE r

RECURSIVE Encloses(_, _, _)
\* SubDomain element i is an ancestor of SubDomain element j; 0 stands for the
\* SubDomains element of the Taxonomy itself, which encloses them all
Encloses(subDomains, i, j) ==
    \/ i = 0
    \/ /\ subDomains[j].parent # 0
       /\ \/ subDomains[j].parent = i
          \/ Encloses(subDomains, i, subDomains[j].parent)

\* element.getElementsByTagName('SubDomains')[0].getElementsByTagName('SubDomain'):
\* every SubDomain element inside the element, at any depth, in document order
SubDomainElements(subDomains, i) ==
    SelectSeq([j \in 1..Len(subDomains) |-> j], LAMBDA j : Encloses(subDomains, i, j))

\* a loop over SubDomain elements that calls processSubDomain with parentDomainKey
SubDomainLoop(parentDomainKey, elements) ==
    [parentDomainKey |-> parentDomainKey, elements |-> elements, i |-> 1]

\* document order: an element is enclosed by the one before it, or by one that
\* encloses the one before it, or by none
InDocumentOrder(subDomains) ==
    \A j \in 1..Len(subDomains) :
        \/ subDomains[j].parent = 0
        \/ /\ j > 1
           /\ \/ subDomains[j].parent = j - 1
              \/ Encloses(subDomains, subDomains[j].parent, j - 1) /\ subDomains[j].parent # 0

SubDomainInputs(n) ==
    [Code : {"", "1", "1.1", "2"}, Name : {"", "n"}, parent : 0..(n - 1)]

TaxonomyInputs ==
    {[Id |-> id, Title |-> title, subDomains |-> subDomains] :
        id \in {"LN"}, title \in {"Louw-Nida"},
        subDomains \in {s \in UNION {[1..n -> SubDomainInputs(n)] : n \in 0..MaxSubDomains} :
                           /\ \A j \in 1..Len(s) : s[j].parent < j
                           /\ InDocumentOrder(s)}}
    \cup {[Id |-> "", Title |-> "Louw-Nida", subDomains |-> <<>>],
          [Id |-> "LN", Title |-> "", subDomains |-> <<>>]}

TaxonomyInit ==
    /\ taxonomyElement \in TaxonomyInputs
    /\ taxonomyDb = EmptyTaxonomyDb
    /\ taxonomyLoad = [pc |-> "taxonomy", taxonomyKey |-> 0, languageKey |-> 1, stack |-> <<>>]
    /\ HelpersIdle
    /\ ConvertIdle
    /\ LoadIdle
    /\ DomainsIdle

\* processTaxonomy up to its loop over the SubDomain elements
ProcessTaxonomy ==
    /\ taxonomyLoad.pc = "taxonomy"
    /\ IF taxonomyElement.Id = "" \/ taxonomyElement.Title = ""
       THEN /\ taxonomyLoad' = [taxonomyLoad EXCEPT !.pc = "commit"]
            /\ UNCHANGED taxonomyDb
       ELSE LET r == insertAndGetKeyAwaited(taxonomyDb, "Taxonomies",
                                            [Id |-> taxonomyElement.Id], 1)
                elements == SubDomainElements(taxonomyElement.subDomains, 0)
            IN  /\ taxonomyDb' = r.db
                /\ taxonomyLoad' =
                      IF r.outcome = "error"
                      THEN [taxonomyLoad EXCEPT !.pc = "rollback"]
                      ELSE IF elements = <<>>
                      THEN [taxonomyLoad EXCEPT !.pc = "commit", !.taxonomyKey = r.key]
                      ELSE [taxonomyLoad EXCEPT !.pc = "subDomains", !.taxonomyKey = r.key,
                                                !.stack = <<SubDomainLoop(NullKey, elements)>>]
    /\ UNCHANGED <<taxonomyElement, helperVars, convertVars, loadVars, domainVars>>

\* the loop on top of the stack goes on to its next element
NextSubDomain(stack) ==
    [stack EXCEPT ![Len(stack)].i = @ + 1]

\* processSubDomain for the next element of the loop on top of the stack, up to
\* its own loop over the SubDomain elements it finds inside the element: the
\* TaxonomyDomains row, the label; an error is thrown through every caller
ProcessSubDomain ==
    /\ taxonomyLoad.pc = "subDomains"
    /\ LET stack == taxonomyLoad.stack
           loop == stack[Len(stack)]
       IN  /\ loop.i <= Len(loop.elements)
           /\ LET e == loop.elements[loop.i]
                  subDomainElement == taxonomyElement.subDomains[e]
                  r == insertAndGetKeyAwaited(
                           taxonomyDb, "TaxonomyDomains",
                           [TaxonomyKey |-> taxonomyLoad.taxonomyKey,
                            ParentTaxonomyDomainKey |-> loop.parentDomainKey,
                            DomainCode |-> subDomainElement.Code], 1)
                  label == IF r.outcome = "error" \/ subDomainElement.Name = ""
                           THEN [db |-> r.db, error |-> FALSE]
                           ELSE insert(r.db, "TaxonomyDomainLabels",
                                       [TaxonomyDomainKey |-> r.key,
                                        LanguageKey |-> taxonomyLoad.languageKey,
                                        Label |-> subDomainElement.Name], 1)
                  children == SubDomainElements(taxonomyElement.subDomains, e)
              IN  IF subDomainElement.Code = ""
                  THEN /\ taxonomyLoad' = [taxonomyLoad EXCEPT !.stack = NextSubDomain(stack)]
                       /\ UNCHANGED taxonomyDb
                  ELSE IF r.outcome = "error" \/ label.error
                  THEN /\ taxonomyLoad' = [taxonomyLoad EXCEPT !.pc = "rollback",
                                                               !.stack = <<>>]
                       /\ taxonomyDb' = r.db
                  ELSE /\ taxonomyDb' = label.db
                       /\ taxonomyLoad' =
                             [taxonomyLoad EXCEPT !.stack =
                                 IF children = <<>> THEN NextSubDomain(stack)
                                 ELSE Append(stack, SubDomainLoop(r.key, children))]
    /\ UNCHANGED <<taxonomyElement, helperVars, convertVars, loadVars, domainVars>>

\* the loop on top of the stack has no element left: processSubDomain returns
\* to its caller, and processTaxonomy to processLexicalReference
ReturnSubDomain ==
    /\ taxonomyLoad.pc = "subDomains"
    /\ LET stack == taxonomyLoad.stack
           loop == stack[Len(stack)]
       IN  /\ loop.i > Len(loop.elements)
           /\ taxonomyLoad' =
                 IF Len(stack) = 1
                 THEN [taxonomyLoad EXCEPT !.pc = "commit", !.stack = <<>>]
                 ELSE [taxonomyLoad EXCEPT !.stack =
                          NextSubDomain(SubSeq(stack, 1, Len(stack) - 1))]
    /\ UNCHANGED <<taxonomyElement, taxonomyDb, helperVars, convertVars, loadVars, domainVars>>

\* processLexicalReference ends the document: COMMIT, or ROLLBACK in its catch
EndTaxonomyDocument ==
    /\ taxonomyLoad.pc \in {"commit", "rollback"}
    /\ taxonomyLoad' = [taxonomyLoad EXCEPT !.pc = IF @ = "commit" THEN "committed"
                                                   ELSE "rolledBack"]
    /\ taxonomyDb' = IF taxonomyLoad.pc = "commit" THEN taxonomyDb ELSE EmptyTaxonomyDb
    /\ UNCHANGED <<taxonomyElement, helperVars, convertVars, loadVars, domainVars>>

TaxonomyNext ==
    \/ ProcessTaxonomy
    \/ ProcessSubDomain
    \/ ReturnSubDomain
    \/ EndTaxonomyDocument

SpecTaxonomy == TaxonomyInit /\ [][TaxonomyNext]_vars

----------------------------------------------------------------------------
(* import-lexicon-to-sqlite: properties                                     *)

\* every processEntry call started for file f has settled
Settled(f) == \A k \in 1..Len(tasks) : tasks[k].file = f => tasks[k].status # "inflight"

\* the rows of the database that were inserted while file f was processed
RowsOf(f) == UNION {{row \in sqlite.db[t] : row.file = f} : t \in DOMAIN sqlite.db}

\* C3: once processLexicalReference has rolled a document back and every
\* processEntry call started for it has settled, the database holds no row
\* inserted on behalf of that document, the writes of calls of the batch that
\* were still in flight when ROLLBACK ran included.
C3_RollbackLeavesNoRow ==
    \A f \in DOMAIN outcome :
        (outcome[f].result = "rolledBack" /\ Settled(f)) => RowsOf(f) = {}

SameSense(d, row) ==
    {r \in d.Senses : \A c \in {"Id", "EntryKey", "LanguageKey"} : r[c] = row[c]}

\* the call of insertAndGetKey for a Senses row whose INSERT OR IGNORE has
\* changed nothing and whose SELECT is in flight
FetchingSense(k) ==
    /\ tasks[k].status = "inflight"
    /\ tasks[k].awaiting = "select"
    /\ tasks[k].ops[tasks[k].pc].kind = "sense"
    /\ sqlite.open

\* C23: insertAndGetKey is insert-if-new-else-fetch: when a row with the same
\* uniqueness key exists already, the call adds no row and returns the key of
\* that row rather than failing, also when a supplied column outside the key
\* (the Definition of a sense) differs from the stored one or is NULL.
C23_InsertElseFetch ==
    \A k \in 1..Len(tasks) :
        FetchingSense(k) =>
            LET row == RowOf(tasks[k], files[tasks[k].file].entries[tasks[k].entry])
                r == insertAndGetKey(sqlite.db, "Senses", row, "select", tasks[k].file)
            IN  \A existing \in SameSense(sqlite.db, row) :
                    /\ r.outcome = "ok"
                    /\ r.key = existing.SenseKey
                    /\ r.db = sqlite.db

\* the other half, which holds: a call that finds the row it supplies, column
\* for column, returns the key of that row and adds nothing
FetchOfEqualRow ==
    \A k \in 1..Len(tasks) :
        FetchingSense(k) =>
            LET row == RowOf(tasks[k], files[tasks[k].file].entries[tasks[k].entry])
                r == insertAndGetKey(sqlite.db, "Senses", row, "select", tasks[k].file)
            IN  \A existing \in SameSense(sqlite.db, row) :
                    (~row.Definition.isNull /\ existing.Definition = row.Definition)
                        => /\ r.outcome = "ok"
                           /\ r.key = existing.SenseKey
                           /\ r.db = sqlite.db

\* in this step the processEntry call k passes its operation j, a Corpus element
\* whose key it takes from cache.corpora (line 636) instead of the database
ReadsCorporaCache(k, j) ==
    /\ tasks[k].status = "inflight"
    /\ tasks[k].ops[j].kind = "corpus"
    /\ tasks[k].pc < j
    /\ j < tasks'[k].pc

\* the Corpora table of database d has the row the cache tells of
CachedCorpusIn(d, corpora, name) ==
    \E r \in d.Corpora : r.Id = name /\ r.CorpusKey = corpora[name]

\* C24: the corpus-key cache stays coherent with the database over a whole
\* run: whenever a cached entry name -> key is read, the Corpora table holds a
\* row with that Id and that key (before or after the statement that completes
\* in the same step), and two names never map to the same key; this holds
\* across documents, also after the document that created the row was rolled
\* back.
C24_CachesCoherent ==
    [][\A k \in 1..Len(tasks) : \A j \in 1..Len(tasks[k].ops) :
          ReadsCorporaCache(k, j) =>
              /\ \/ CachedCorpusIn(sqlite.db, cache'.corpora, tasks[k].ops[j].corpus.Id)
                 \/ CachedCorpusIn(sqlite'.db, cache'.corpora, tasks[k].ops[j].corpus.Id)
              /\ \A n1, n2 \in DOMAIN cache'.corpora :
                    cache'.corpora[n1] = cache'.corpora[n2] => n1 = n2]_vars

\* what holds instead: within the documents that no ROLLBACK has preceded,
\* the cache agrees with the table whenever it is read
CoherentBeforeAnyRollback ==
    [][\A k \in 1..Len(tasks) : \A j \in 1..Len(tasks[k].ops) :
          (/\ ReadsCorporaCache(k, j)
           /\ \A f \in DOMAIN outcome : outcome[f].result # "rolledBack"
           /\ loader.pc # "rollback")
              => \/ CachedCorpusIn(sqlite.db, cache'.corpora, tasks[k].ops[j].corpus.Id)
                 \/ CachedCorpusIn(sqlite'.db, cache'.corpora, tasks[k].ops[j].corpus.Id)]_vars

\* the SubDomain elements of the Taxonomy all have a Code, each its own
DistinctCodes ==
    \A i, j \in 1..Len(taxonomyElement.subDomains) :
        /\ taxonomyElement.subDomains[i].Code # ""
        /\ taxonomyElement.subDomains[i].Code = taxonomyElement.subDomains[j].Code => i = j

\* some SubDomain element is inside another: two or more levels
NestedSubDomains ==
    \E j \in 1..Len(taxonomyElement.subDomains) : taxonomyElement.subDomains[j].parent # 0

\* the TaxonomyDomains table has one row per SubDomain element, each with the
\* key of the row of the enclosing SubDomain, NULL for a top-level one
OneRowPerSubDomain ==
    /\ Cardinality(taxonomyDb.TaxonomyDomains) = Len(taxonomyElement.subDomains)
    /\ \A j \in 1..Len(taxonomyElement.subDomains) :
          \E r \in taxonomyDb.TaxonomyDomains :
              /\ r.DomainCode = taxonomyElement.subDomains[j].Code
              /\ IF taxonomyElement.subDomains[j].parent = 0
                 THEN r.ParentTaxonomyDomainKey = NullKey
                 ELSE \E p \in taxonomyDb.TaxonomyDomains :
                         /\ p.DomainCode =
                               taxonomyElement.subDomains[
                                   taxonomyElement.subDomains[j].parent].Code
                         /\ r.ParentTaxonomyDomainKey = p.TaxonomyDomainKey

\* C25: loading a Taxonomy whose SubDomain elements are nested two or more
\* levels deep completes without error and leaves exactly one TaxonomyDomains
\* row per SubDomain element, with the key of the row of the immediately
\* enclosing SubDomain as its parent key (NULL at the top level).
C25_NestedSubDomains ==
    (NestedSubDomains /\ DistinctCodes) =>
        /\ taxonomyLoad.pc \notin {"rollback", "rolledBack"}
        /\ taxonomyLoad.pc = "committed" => OneRowPerSubDomain

\* what holds instead: a Taxonomy whose SubDomain elements are all at the top
\* level is loaded with one row per element, and a nested one never commits
FlatTaxonomyLoads ==
    DistinctCodes =>
        IF NestedSubDomains THEN taxonomyLoad.pc # "committed"
        ELSE /\ taxonomyLoad.pc \notin {"rollback", "rolledBack"}
             /\ taxonomyLoad.pc = "committed" => OneRowPerSubDomain

FlatTaxonomyLoaded ==
    /\ DistinctCodes
    /\ ~NestedSubDomains
    /\ Len(taxonomyElement.subDomains) = 3
    /\ taxonomyLoad.pc = "committed"

\* the content of database d by natural keys: every surrogate key is replaced
\* by the natural key of the row it points to
NaturalEntry(d, entryKey) ==
    LET r == CHOOSE r \in d.Entries : r.EntryKey = entryKey
        t == CHOOSE t \in d.LexicalReferenceTexts :
                 t.LexicalReferenceTextKey = r.LexicalReferenceTextKey
    IN  <<t.Id, t.Version, r.Id, r.Lemma>>

NaturalSense(d, senseKey) ==
    LET r == CHOOSE r \in d.Senses : r.SenseKey = senseKey
        l == CHOOSE l \in d.Languages : l.LanguageKey = r.LanguageKey
    IN  <<NaturalEntry(d, r.EntryKey), l.BCP47Code, r.Id>>

NaturalOccurrence(d, r) ==
    <<(CHOOSE c \in d.Corpora : c.CorpusKey = r.CorpusKey).Id,
      r.BookNum, r.ChapterNum, r.VerseNum, r.WordNum>>

NaturalContent(d) ==
    [Languages |-> {r.BCP47Code : r \in d.Languages},
     LexicalReferenceTexts |-> {<<r.Id, r.Version>> : r \in d.LexicalReferenceTexts},
     Entries |-> {NaturalEntry(d, r.EntryKey) : r \in d.Entries},
     Senses |-> {<<NaturalSense(d, r.SenseKey), r.Definition>> : r \in d.Senses},
     Glosses |-> {<<NaturalSense(d, r.SenseKey), r.Gloss>> : r \in d.Glosses},
     Corpora |-> {r.Id : r \in d.Corpora},
     EntryOccurrences |->
         {<<NaturalEntry(d, r.EntryKey), NaturalOccurrence(d, r)>> : r \in d.EntryOccurrences},
     SenseOccurrences |->
         {<<NaturalSense(d, r.SenseKey), NaturalOccurrence(d, r)>> : r \in d.SenseOccurrences}]

\* the same content read off a document, with no reference to the order in
\* which its entries are processed
LoadedEntries(doc) ==
    {e \in 1..Len(doc.entries) : doc.entries[e].Id # "" /\ doc.entries[e].Lemma # ""}

EntryContent(doc, e) ==
    <<doc.Id, doc.DataVersion, doc.entries[e].Id, doc.entries[e].Lemma>>

SenseContent(doc, e, s) ==
    <<EntryContent(doc, e), doc.Language, doc.entries[e].senses[s].Id>>

LoadedSenses(doc) ==
    {es \in LoadedEntries(doc) \X (1..3) :
        /\ es[2] <= Len(doc.entries[es[1]].senses)
        /\ doc.entries[es[1]].senses[es[2]].Id # ""}

\* the occurrence tuples under the Corpus elements of one Occurrences element
OccurrencesContent(corpora) ==
    UNION {{<<corpora[c].Id,
              parseU23003Reference(corpora[c].occurrences[o].text).bookNum,
              parseU23003Reference(corpora[c].occurrences[o].text).chapterNum,
              parseU23003Reference(corpora[c].occurrences[o].text).verseNum,
              parseU23003Reference(corpora[c].occurrences[o].text).wordNum>> :
                o \in {o \in 1..Len(corpora[c].occurrences) :
                          UsableOccurrence(corpora[c].occurrences[o])}} :
           c \in {c \in 1..Len(corpora) : corpora[c].Id # ""}}

DocumentContent(doc) ==
    [Languages |-> {doc.Language},
     LexicalReferenceTexts |-> {<<doc.Id, doc.DataVersion>>},
     Entries |-> {EntryContent(doc, e) : e \in LoadedEntries(doc)},
     Senses |->
         {<<SenseContent(doc, es[1], es[2]),
            IF doc.entries[es[1]].senses[es[2]].Definition = "" THEN SqlNull
            ELSE SqlText(doc.entries[es[1]].senses[es[2]].Definition)>> :
                es \in LoadedSenses(doc)},
     Glosses |->
         UNION {{<<SenseContent(doc, es[1], es[2]), doc.entries[es[1]].senses[es[2]].glosses[g]>> :
                    g \in {g \in 1..Len(doc.entries[es[1]].senses[es[2]].glosses) :
                              doc.entries[es[1]].senses[es[2]].glosses[g] # ""}} :
                es \in LoadedSenses(doc)},
     Corpora |->
         UNION {{doc.entries[es[1]].senses[es[2]].corpora[c].Id :
                    c \in {c \in 1..Len(doc.entries[es[1]].senses[es[2]].corpora) :
                              doc.entries[es[1]].senses[es[2]].corpora[c].Id # ""}} :
                es \in LoadedSenses(doc)},
     EntryOccurrences |->
         UNION {{<<EntryContent(doc, e), o>> :
                    o \in IF FirstOccurrencesSense(doc.entries[e].senses) = 0 THEN {}
                          ELSE OccurrencesContent(
                                   doc.entries[e].senses[
                                       FirstOccurrencesSense(doc.entries[e].senses)].corpora)} :
                e \in LoadedEntries(doc)},
     SenseOccurrences |->
         UNION {{<<SenseContent(doc, es[1], es[2]), o>> :
                    o \in OccurrencesContent(doc.entries[es[1]].senses[es[2]].corpora)} :
                es \in LoadedSenses(doc)}]

C26_WitnessInOrder ==
    /\ fileIdx = 1
    /\ outcome[1].result = "committed"
    /\ Len(files[1].entries) = 2
    /\ \E r1, r2 \in sqlite.db.Entries :
          /\ r1.Id = files[1].entries[1].Id
          /\ r2.Id = files[1].entries[2].Id
          /\ r1.EntryKey < r2.EntryKey
          /\ sqlite.db.SenseOccurrences # {}

\* processDirectory takes up file f in this step
TakesUp(f) == fileIdx = f - 1 /\ fileIdx' = f

\* a step that takes up a document rejected by its header opens no transaction
\* and writes nothing
RejectedWritesNothing ==
    \A f \in 1..Len(files) :
        (TakesUp(f) /\ ~files[f].fatalError /\ RejectedByHeader(files[f]))
            => /\ sqlite' = sqlite
               /\ loader'.pc = "idle"
               /\ outcome'[f].result = "skipped"

\* a step that takes up a document issues BEGIN TRANSACTION, with no
\* transaction of an earlier document open
OpensTransaction(f) ==
    TakesUp(f) => /\ loader'.pc = "begin"
                  /\ ~sqlite.inTxn
                  /\ \A g \in 1..(f - 1) : outcome[g].result # "none"

\* BEGIN TRANSACTION runs for a document that has no outcome yet, never inside
\* a transaction; COMMIT and ROLLBACK run inside one and give the document its
\* outcome, which is never changed afterwards
OneBeginOneEnd ==
    /\ (loader.pc = "begin" /\ loader'.pc # "begin")
          => /\ ~sqlite.inTxn /\ sqlite'.inTxn
             /\ outcome[fileIdx].result = "none"
    /\ (sqlite.inTxn # sqlite'.inTxn)
          => IF sqlite'.inTxn THEN loader.pc = "begin"
             ELSE /\ loader.pc \in {"commit", "rollback"}
                  /\ outcome[fileIdx].result = "none"
                  /\ outcome'[fileIdx].result =
                        IF loader.pc = "commit" THEN "committed" ELSE "rolledBack"
                  /\ fileIdx' = fileIdx
    /\ \A f \in 1..Len(files) : outcome[f].result # "none" => outcome'[f] = outcome[f]

\* a document that has failed does not keep the next one from being taken up
NextIsAttempted ==
    \A f \in 1..Len(files) :
        (/\ fileIdx = f
         /\ f < Len(files)
         /\ outcome[f].result \notin {"none", "committed", "skipped"})
            => ENABLED StartFile

\* C27: transactions are strictly per document.  A document rejected by the
\* header validation opens no transaction and writes nothing; every other
\* document issues exactly one BEGIN TRANSACTION, followed by exactly one COMMIT
\* or ROLLBACK before the next document begins, so that transactions never nest
\* and never span documents; and a failed document never prevents the next
\* document from being attempted.
C27_TransactionPerDocument ==
    /\ [][/\ RejectedWritesNothing
          /\ \A f \in 1..Len(files) :
                ~(~files[f].fatalError /\ RejectedByHeader(files[f])) => OpensTransaction(f)
          /\ OneBeginOneEnd]_vars
    /\ []NextIsAttempted

\* what holds instead: the same for the files the parser reports no fatal
\* error for
PerDocumentWhenParsed ==
    /\ [][/\ RejectedWritesNothing
          /\ \A f \in 1..Len(files) :
                (~files[f].fatalError /\ ~RejectedByHeader(files[f])) => OpensTransaction(f)
          /\ OneBeginOneEnd]_vars
    /\ []((\A f \in 1..Len(files) : ~files[f].fatalError) => NextIsAttempted)

\* a document was rolled back and the next one has been committed
RolledBackThenCommitted ==
    /\ Len(files) = 2
    /\ outcome[1].result = "rolledBack"
    /\ outcome[2].result = "committed"

\* the positions of the senses in the document written for a language
WrittenSenses(doc) ==
    {p \in (DOMAIN doc.Entries) \X (1..8) : p[2] \in DOMAIN doc.Entries[p[1]].Senses}

\* the id that passed verifyAndRemoveDuplicateSenses, of the entry written n-th
\* and of its i-th sense
ValidatedEntryId(lc, n) == entriesByLanguage[lc][output[lc].Entries[n].Lemma].id
ValidatedSenseId(lc, p) ==
    entriesByLanguage[lc][output[lc].Entries[p[1]].Lemma].senses[p[2]].id

\* C28: serialization preserves the uniqueness of identifiers: two entries, or
\* two senses, of one language that passed the uniqueness check with different
\* ids are written with different Id attributes; cleanId, which strips the
\* prefix and keeps 6 characters of an entry id and 15 of a sense id, never
\* makes two distinct validated ids equal.
C28_WrittenIdsDistinct ==
    stage = "done" =>
        \A lc \in DOMAIN output :
            /\ \A n1, n2 \in DOMAIN output[lc].Entries :
                  ValidatedEntryId(lc, n1) # ValidatedEntryId(lc, n2)
                      => output[lc].Entries[n1].Id # output[lc].Entries[n2].Id
            /\ \A p, q \in WrittenSenses(output[lc]) :
                  ValidatedSenseId(lc, p) # ValidatedSenseId(lc, q)
                      => output[lc].Entries[p[1]].Senses[p[2]].Id
                             # output[lc].Entries[q[1]].Senses[q[2]].Id

\* what holds: the senses of the model, whose condensed ids have no more than
\* 15 characters after the prefix, are written with distinct Ids
WrittenSenseIdsDistinct ==
    stage = "done" =>
        \A lc \in DOMAIN output :
            \A p, q \in WrittenSenses(output[lc]) :
                ValidatedSenseId(lc, p) # ValidatedSenseId(lc, q)
                    => output[lc].Entries[p[1]].Senses[p[2]].Id
                           # output[lc].Entries[q[1]].Senses[q[2]].Id

\* the Corpus elements in the Occurrences element that is a child of the Entry
\* element itself: the Entry elements of the model, like those the converter
\* writes, have none, all their Occurrences elements are inside Sense elements
OwnCorpora(entry) == <<>>

\* C29: the loader makes EntryOccurrences rows only from the Occurrences
\* element that is a direct child of the Entry element; occurrences inside a
\* Sense element of the entry give SenseOccurrences rows only, never
\* entry-level rows.
C29_EntryRowsFromOwnElements ==
    \A r \in sqlite.db.EntryOccurrences :
        \E f \in 1..Len(files) : \E e \in 1..Len(files[f].entries) :
            /\ NaturalEntry(sqlite.db, r.EntryKey) = EntryContent(files[f], e)
            /\ NaturalOccurrence(sqlite.db, r) \in OccurrencesContent(OwnCorpora(files[f].entries[e]))


----------------------------------------------------------------------------
(* C30: what the merge of removeDuplicateSensesWithinEntry leaves alone     *)

\* the fields of a sense that the merge never assigns
Untouched(sense) ==
    [baseFormIndex |-> sense.baseFormIndex, lexIndex |-> sense.lexIndex,
     conIndex |-> sense.conIndex, occurrences |-> sense.occurrences,
     domains |-> sense.domains]

\* the survivor of one condensed id has the id, the indices, the occurrences and the
\* domains of the earliest sense that carried the id before the call
KeepsItsOwn(before, survivor) ==
    LET colliding == SensesWithId(before, survivor.id)
        first == before[Earliest(colliding)]
    IN  /\ colliding # {}
        /\ survivor.id = condenseSenseId(first.id)
        /\ Untouched(survivor) = Untouched(first)

\* C30: when senses of one entry share a condensed id, the merge changes nothing of
\* the survivor but its definition and glosses: the survivor has the id, the
\* positional indices, the occurrences and the domains of the earliest of them, and
\* the occurrences and domains of the later ones are in no sense of the entry
C30_SurvivorKeepsOwnFields ==
    [][VerifyStep =>
          \A lc \in DOMAIN entriesByLanguage : \A l \in DOMAIN entriesByLanguage[lc] :
             /\ lc \in DOMAIN entriesByLanguage'
             /\ l \in DOMAIN entriesByLanguage'[lc]
             /\ \A k \in DOMAIN entriesByLanguage'[lc][l].senses :
                   KeepsItsOwn(entriesByLanguage[lc][l].senses,
                               entriesByLanguage'[lc][l].senses[k])
             /\ \A i \in DOMAIN entriesByLanguage[lc][l].senses :
                   \E k \in DOMAIN entriesByLanguage'[lc][l].senses :
                      entriesByLanguage'[lc][l].senses[k].id
                          = condenseSenseId(entriesByLanguage[lc][l].senses[i].id)]_vars

\* two senses of one entry with one condensed id, each with occurrences and domains
\* of its own: the survivor has those of the first, those of the second are gone
C30_Witness ==
    /\ stage = "links"
    /\ \E lc \in DOMAIN extracted : \E l \in DOMAIN extracted[lc] :
          /\ Len(extracted[lc][l].senses) = 2
          /\ Len(entriesByLanguage[lc][l].senses) = 1
          /\ extracted[lc][l].senses[1].occurrences # <<>>
          /\ extracted[lc][l].senses[2].occurrences # <<>>
          /\ extracted[lc][l].senses[1].occurrences # extracted[lc][l].senses[2].occurrences
          /\ extracted[lc][l].senses[1].domains # extracted[lc][l].senses[2].domains
          /\ entriesByLanguage[lc][l].senses[1].occurrences
                 = extracted[lc][l].senses[1].occurrences
          /\ entriesByLanguage[lc][l].senses[1].domains = extracted[lc][l].senses[1].domains
          /\ entriesByLanguage[lc][l].senses[1].definition
                 = extracted[lc][l].senses[2].definition
          /\ entriesByLanguage[lc][l].senses[1].definition
                 # extracted[lc][l].senses[1].definition

====
